---- MODULE Spec2Model ----
(***************************************************************************)
(* lazycommit: the large-diff pipeline (diff partitioner, size classifier, *)
(* message generation orchestrator) and its two callers, the CLI command   *)
(* and the prepare-commit-msg hook.                                        *)
(*                                                                         *)
(* Text is a sequence of symbols.  Diff symbols:                           *)
(*   "D"  the 11 characters 'diff --git ' (the file-introducing prefix)    *)
(*   "d"  the 10 characters 'diff --git'  ("D" with its last blank cut)    *)
(*   "x"  a non-blank character, " " a blank, "\n" a line break            *)
(***************************************************************************)
EXTENDS Integers, Sequences, FiniteSets, TLC

VARIABLES
    mode,          \* "partition" | "cli" | "hook": which entry point runs
    pc,            \* position of the running entry point
    diff,          \* staged.diff, the raw diff text
    chunkSize,     \* maxTokens / chunkSize, the token budget of a chunk
    chunks,        \* the chunk sequence built from diff
    compact,       \* buildCompactSummary's result: "unknown", "built" or "null"
    idx,           \* loop index i of the per-chunk loop (1-based)
    chunkMessages, \* messages collected from the chunk calls
    generate,      \* config.generate, the number of completions asked for
    calls,         \* the completion calls made so far, each with its result
    messages,      \* the message list returned by the generation
    outcome,       \* "running" | "completed" | "failed" (generation)
    error,         \* the error the generation or the caller threw, or "none"
    commits,       \* messages passed to `git commit -m`, in order
    baseMessage,   \* content of the commit message file before the hook
    hookFile,      \* content of the commit message file
    inflight,      \* the hook's concurrent generateText calls, by issue order
    args,          \* arguments of a function applied on its own
    result,        \* what that function returned
    commitSource,  \* the hook's second argument: git's commit source
    secretsManager, \* the SecretsManager object: its config and its fields
    platform,      \* process.platform
    keyringUp,     \* whether the platform's credential store answers
    keyring,       \* the platform's credential store: account -> password
    environ,       \* process.env: name -> value
    files,         \* the file system: path -> file
    hookEntry      \* what the hooks directory holds under prepare-commit-msg

vars == <<mode, pc, diff, chunkSize, chunks, compact, idx, chunkMessages,
          generate, calls, messages, outcome, error, commits,
          baseMessage, hookFile, inflight, args, result, commitSource,
          secretsManager, platform, keyringUp, keyring, environ, files,
          hookEntry>>

\* the state outside the generation pipeline
secretsVars == <<secretsManager, platform, keyringUp, keyring, environ, files>>

otherVars == <<commitSource, secretsVars, hookEntry>>

\* no secrets manager was constructed and no file is looked at
NoSecrets ==
    /\ secretsManager = <<>> /\ platform = <<>> /\ keyringUp = <<>>
    /\ keyring = <<>> /\ environ = <<>> /\ files = <<>>

-----------------------------------------------------------------------------
(* Bounds *)

MaxDiffLen == 5      \* symbols in a diff given to the partitioner alone
MaxBudget == 6       \* largest token budget tried with the partitioner

-----------------------------------------------------------------------------
(* Strings *)

DiffAlphabet == {"D", "x", " ", "\n"}

SeqsUpTo(S, n) == UNION {[1..k -> S] : k \in 0..n}

Width(c) == IF c = "D" THEN 11 ELSE IF c = "d" THEN 10 ELSE 1

\* String.prototype.length
RECURSIVE StrLen(_)
StrLen(s) == IF s = <<>> THEN 0 ELSE Width(Head(s)) + StrLen(Tail(s))

IsSpace(c) == c \in {" ", "\n", "\r"}

RECURSIVE TrimStart(_)
TrimStart(s) ==
    IF s # <<>> /\ IsSpace(Head(s)) THEN TrimStart(Tail(s)) ELSE s

RECURSIVE TrimEnd(_)
TrimEnd(s) ==
    IF s = <<>> THEN s
    ELSE IF IsSpace(s[Len(s)]) THEN TrimEnd(SubSeq(s, 1, Len(s) - 1))
    ELSE IF s[Len(s)] = "D" THEN SubSeq(s, 1, Len(s) - 1) \o <<"d">>
    ELSE s

\* String.prototype.trim
Trim(s) == TrimEnd(TrimStart(s))

\* String.prototype.split(sep): the pieces between the separators
RECURSIVE SplitAcc(_, _, _)
SplitAcc(s, sep, cur) ==
    IF s = <<>> THEN <<cur>>
    ELSE IF Head(s) = sep THEN <<cur>> \o SplitAcc(Tail(s), sep, <<>>)
    ELSE SplitAcc(Tail(s), sep, Append(cur, Head(s)))

Split(s, sep) == SplitAcc(s, sep, <<>>)

\* line.startsWith('diff --git ')
StartsWithDiffGit(line) == line # <<>> /\ Head(line) = "D"

RECURSIVE Concat(_)
Concat(ss) == IF ss = <<>> THEN <<>> ELSE Head(ss) \o Concat(Tail(ss))

-----------------------------------------------------------------------------
(* Diff partitioner: src/utils/git.ts *)

estimateTokenCount(text) == (StrLen(text) + 3) \div 4

\* One iteration of chunkDiff's loop; st = [chunks, currentChunk, currentTokens]
ChunkStep(st, line, maxTokens) ==
    LET lineTokens == estimateTokenCount(line) IN
    IF st.currentTokens + lineTokens > maxTokens /\ Len(st.currentChunk) > 0
    THEN [chunks |-> Append(st.chunks, Trim(st.currentChunk)),
          currentChunk |-> line \o <<"\n">>,
          currentTokens |-> lineTokens]
    ELSE [chunks |-> st.chunks,
          currentChunk |-> st.currentChunk \o line \o <<"\n">>,
          currentTokens |-> st.currentTokens + lineTokens]

RECURSIVE ChunkLoop(_, _, _)
ChunkLoop(st, lines, maxTokens) ==
    IF lines = <<>> THEN st
    ELSE ChunkLoop(ChunkStep(st, Head(lines), maxTokens), Tail(lines), maxTokens)

chunkDiff(text, maxTokens) ==
    IF estimateTokenCount(text) <= maxTokens THEN <<text>>
    ELSE LET st == ChunkLoop([chunks |-> <<>>, currentChunk |-> <<>>,
                              currentTokens |-> 0],
                             Split(text, "\n"), maxTokens)
         IN IF Len(Trim(st.currentChunk)) > 0
            THEN Append(st.chunks, Trim(st.currentChunk))
            ELSE st.chunks

\* One iteration of splitDiffByFile's loop; st = [parts, current]
SplitStep(st, line) ==
    IF StartsWithDiffGit(line)
    THEN [parts |-> IF Len(Trim(st.current)) > 0
                    THEN Append(st.parts, Trim(st.current)) ELSE st.parts,
          current |-> line \o <<"\n">>]
    ELSE [parts |-> st.parts, current |-> st.current \o line \o <<"\n">>]

RECURSIVE SplitLoop(_, _)
SplitLoop(st, lines) ==
    IF lines = <<>> THEN st ELSE SplitLoop(SplitStep(st, Head(lines)), Tail(lines))

splitDiffByFile(text) ==
    LET st == SplitLoop([parts |-> <<>>, current |-> <<>>], Split(text, "\n"))
    IN IF Len(Trim(st.current)) > 0
       THEN Append(st.parts, Trim(st.current)) ELSE st.parts

\* fileDiffs.flatMap((fd) => chunkDiff(fd, chunkSize))
RECURSIVE FlatMapChunkDiff(_, _)
FlatMapChunkDiff(fileDiffs, size) ==
    IF fileDiffs = <<>> THEN <<>>
    ELSE chunkDiff(Head(fileDiffs), size) \o FlatMapChunkDiff(Tail(fileDiffs), size)

\* generateCommitMessageFromChunks, lines 188-190: the chunk sequence
BuildChunks(text, size) ==
    LET perFileChunks == FlatMapChunkDiff(splitDiffByFile(text), size)
    IN IF Len(perFileChunks) > 0 THEN perFileChunks ELSE chunkDiff(text, size)

-----------------------------------------------------------------------------
(* The partitioner applied to bounded inputs *)

\* process.argv.slice(2)[1] when git passes no commit source
NoCommitSource == "undefined"

Idle ==
    /\ commitSource = NoCommitSource /\ NoSecrets /\ hookEntry = <<>>
    /\ compact = "unknown" /\ idx = 0 /\ chunkMessages = <<>>
    /\ generate = 1 /\ calls = <<>> /\ messages = <<>>
    /\ outcome = "running" /\ error = "none" /\ commits = <<>>
    /\ baseMessage = <<>> /\ hookFile = <<>>
    /\ inflight = <<>>

PartInit ==
    /\ mode = "partition" /\ pc = "input"
    /\ diff \in SeqsUpTo(DiffAlphabet, MaxDiffLen)
    /\ chunkSize \in 1..MaxBudget
    /\ chunks = <<>>
    /\ args = <<>> /\ result = <<>>
    /\ Idle

PartFrame == UNCHANGED <<otherVars, args, result, inflight, mode, diff, chunkSize, compact, idx, chunkMessages,
                         generate, calls, messages, outcome, error,
                         commits, baseMessage, hookFile>>

ApplyChunkDiff ==
    /\ mode = "partition" /\ pc = "input"
    /\ chunks' = chunkDiff(diff, chunkSize)
    /\ pc' = "chunkDiff"
    /\ PartFrame

ApplySplitDiffByFile ==
    /\ mode = "partition" /\ pc = "input"
    /\ chunks' = splitDiffByFile(diff)
    /\ pc' = "splitDiffByFile"
    /\ PartFrame

ApplyBuildChunks ==
    /\ mode = "partition" /\ pc = "input"
    /\ chunks' = BuildChunks(diff, chunkSize)
    /\ pc' = "buildChunks"
    /\ PartFrame

PartNext == ApplyChunkDiff \/ ApplySplitDiffByFile \/ ApplyBuildChunks

PartSpec == PartInit /\ [][PartNext]_vars

-----------------------------------------------------------------------------
(* Message post-processing: src/utils/openrouter.ts, src/utils/ai.ts *)

IsWordChar(c) == c \in {"a", "b", "x", "_"}

IsQuote(c) == c \in {"\"", "'"}

\* .replace(/[\n\r]/g, '')
RECURSIVE RemoveNewlines(_)
RemoveNewlines(s) ==
    IF s = <<>> THEN <<>>
    ELSE IF Head(s) \in {"\n", "\r"} THEN RemoveNewlines(Tail(s))
    ELSE <<Head(s)>> \o RemoveNewlines(Tail(s))

\* .replace(/(\w)\.$/, '$1')
DropTrailingPeriod(s) ==
    IF Len(s) >= 2 /\ s[Len(s)] = "." /\ IsWordChar(s[Len(s) - 1])
    THEN SubSeq(s, 1, Len(s) - 1) ELSE s

\* .replace(/^["']|["']\.?$/g, '')
StripQuotes(s) ==
    LET lead == s # <<>> /\ IsQuote(Head(s))
        rest == IF lead THEN Tail(s) ELSE s
        n    == Len(rest)
    IN IF n >= 1 /\ IsQuote(rest[n]) THEN SubSeq(rest, 1, n - 1)
       ELSE IF n >= 2 /\ rest[n] = "." /\ IsQuote(rest[n - 1])
            THEN SubSeq(rest, 1, n - 2)
       ELSE rest

\* openrouter.ts sanitizeMessage
sanitizeMessage(message) == DropTrailingPeriod(RemoveNewlines(Trim(message)))

\* ai.ts sanitizeMessage
sanitizeMessageAi(message) ==
    DropTrailingPeriod(RemoveNewlines(StripQuotes(Trim(message))))

\* .filter(Boolean) on strings
RECURSIVE FilterNonEmpty(_)
FilterNonEmpty(ss) ==
    IF ss = <<>> THEN <<>>
    ELSE IF Head(ss) = <<>> THEN FilterNonEmpty(Tail(ss))
    ELSE <<Head(ss)>> \o FilterNonEmpty(Tail(ss))

\* Array.from(new Set(array)): first occurrences, in order
RECURSIVE DedupAcc(_, _)
DedupAcc(ss, seen) ==
    IF ss = <<>> THEN <<>>
    ELSE IF Head(ss) \in seen THEN DedupAcc(Tail(ss), seen)
    ELSE <<Head(ss)>> \o DedupAcc(Tail(ss), seen \cup {Head(ss)})

\* deduplicateMessages without the Set: every element is kept
deduplicateKeepAll(array) == array

deduplicateMessages(array) == DedupAcc(array, {})

\* cut.lastIndexOf(a + b): 0-based index of the last occurrence, or -1
LastIndexOf2(s, a, b) ==
    LET found == {i \in 1..(Len(s) - 1) : s[i] = a /\ s[i + 1] = b}
    IN IF found = {} THEN -1
       ELSE (CHOOSE i \in found : \A j \in found : j <= i) - 1

\* cut.lastIndexOf(' ')
LastIndexOf1(s, a) ==
    LET found == {i \in 1..Len(s) : s[i] = a}
    IN IF found = {} THEN -1
       ELSE (CHOOSE i \in found : \A j \in found : j <= i) - 1

MaxOf(S) == CHOOSE x \in S : \A y \in S : y <= x

\* enforceMaxLength of the OpenRouter client that truncates; the tests
\* `> maxLength * 0.7`, `* 0.6`, `* 0.5` are written over the integers
enforceMaxLength(message, maxLength) ==
    IF Len(message) <= maxLength THEN message
    ELSE LET cut == SubSeq(message, 1, maxLength)
             sentenceEnd == MaxOf({LastIndexOf2(cut, ".", " "),
                                   LastIndexOf2(cut, "!", " "),
                                   LastIndexOf2(cut, "?", " ")})
             clauseEnd == MaxOf({LastIndexOf2(cut, ",", " "),
                                 LastIndexOf2(cut, ";", " ")})
             lastSpace == LastIndexOf1(cut, " ")
         IN IF 10 * sentenceEnd > 7 * maxLength
            THEN SubSeq(cut, 1, sentenceEnd + 1)
            ELSE IF 10 * clauseEnd > 6 * maxLength
            THEN SubSeq(cut, 1, clauseEnd + 1)
            ELSE IF 10 * lastSpace > 5 * maxLength
            THEN SubSeq(cut, 1, lastSpace)
            ELSE IF Len(message) > maxLength + 10
            THEN cut \o <<".", ".", ".">>
            ELSE cut

-----------------------------------------------------------------------------
(* Change summarizer: src/utils/git.ts buildCompactSummary *)

\* where x goes in a list sorted by `b.changes - a.changes`: after every
\* element that does not sort behind it (Array.prototype.sort is stable)
RECURSIVE InsertByChanges(_, _)
InsertByChanges(sorted, x) ==
    IF sorted = <<>> THEN <<x>>
    ELSE IF Head(sorted).changes >= x.changes
    THEN <<Head(sorted)>> \o InsertByChanges(Tail(sorted), x)
    ELSE <<x>> \o sorted

RECURSIVE SortLoop(_, _)
SortLoop(sorted, rest) ==
    IF rest = <<>> THEN sorted
    ELSE SortLoop(InsertByChanges(sorted, Head(rest)), Tail(rest))

\* SortByChanges without the sort
SortByChangesKeepOrder(fileStats) == fileStats

\* [...fileStats].sort((a, b) => b.changes - a.changes)
SortByChanges(fileStats) == SortLoop(<<>>, fileStats)

\* the digest: null, or its totals, its `- file (...)` lines and the count
\* of the `...and N more files` line (0: the line is left out)
NullSummary == [built |-> FALSE, totalFiles |-> 0, top |-> <<>>, more |-> 0]

buildCompactSummary(fileStats, maxFiles) ==
    IF fileStats = <<>> THEN NullSummary
    ELSE LET sorted == SortByChanges(fileStats)
             cap    == IF maxFiles > 1 THEN maxFiles ELSE 1
             top    == SubSeq(sorted, 1,
                              IF cap < Len(sorted) THEN cap ELSE Len(sorted))
         IN [built |-> TRUE, totalFiles |-> Len(fileStats), top |-> top,
             more |-> IF Len(sorted) > Len(top)
                      THEN Len(sorted) - Len(top) ELSE 0]

-----------------------------------------------------------------------------
(* The post-processor and the summarizer applied to bounded inputs *)

MaxRawLen == 4       \* symbols in a raw candidate given to sanitizeMessage
MaxLimit == 7        \* largest maxLength tried with enforceMaxLength
MaxHead == 6         \* longest run of letters opening a long message
MaxRun == 12         \* longest run of letters closing a long message
MaxArrayLen == 4     \* longest list given to deduplicateMessages
MaxFileCount == 4    \* most files in a staged change list
MaxChanges == 2      \* most changed lines of one file
MaxCap == 5          \* largest maxFiles tried

RawAlphabet == {"a", ".", "'", " ", "\n"}

RECURSIVE Run(_, _)
Run(c, k) == IF k = 0 THEN <<>> ELSE <<c>> \o Run(c, k - 1)

\* messages long enough for every branch of enforceMaxLength: letters, up
\* to two separators, letters
LongMessages ==
    {Run("a", h) \o mid \o Run("a", t) :
        h \in 0..MaxHead, t \in 0..MaxRun,
        mid \in SeqsUpTo({" ", ".", ","}, 2)}

Candidates == {<<"a">>, <<"b">>, <<"c">>}

\* fileStats of getDiffSummary: the files in `git diff --name-only` order
StatLists ==
    {[i \in 1..Len(cs) |-> [file |-> i, changes |-> cs[i]]] :
        cs \in SeqsUpTo(0..MaxChanges, MaxFileCount)}

NoArgs == [op |-> "none", message |-> <<>>, maxLength |-> 0, array |-> <<>>,
           fileStats |-> <<>>, maxFiles |-> 0]

PostArgs ==
    {[NoArgs EXCEPT !.op = "sanitizeMessage", !.message = m] :
        m \in SeqsUpTo(RawAlphabet, MaxRawLen)}
    \cup {[NoArgs EXCEPT !.op = "enforceMaxLength", !.message = m,
                         !.maxLength = l] :
        m \in LongMessages, l \in 1..MaxLimit}
    \cup {[NoArgs EXCEPT !.op = "deduplicateMessages", !.array = a] :
        a \in SeqsUpTo(Candidates, MaxArrayLen)}
    \cup {[NoArgs EXCEPT !.op = "buildCompactSummary", !.fileStats = f,
                         !.maxFiles = n] :
        f \in StatLists, n \in 0..MaxCap}

PostInit ==
    /\ mode = "post" /\ pc = "input"
    /\ args \in PostArgs
    /\ result = <<>>
    /\ diff = <<>> /\ chunkSize = 1 /\ chunks = <<>>
    /\ Idle

PostFrame == UNCHANGED <<otherVars, args, mode, diff, chunkSize, chunks, compact, idx,
                         chunkMessages, generate, calls, messages, outcome,
                         error, commits, baseMessage, hookFile, inflight>>

\* both sanitizeMessage variants on the same raw candidate
ApplySanitizeMessage ==
    /\ mode = "post" /\ pc = "input" /\ args.op = "sanitizeMessage"
    /\ result' = [openrouter |-> sanitizeMessage(args.message),
                  ai |-> sanitizeMessageAi(args.message)]
    /\ pc' = "sanitizeMessage"
    /\ PostFrame

ApplyEnforceMaxLength ==
    /\ mode = "post" /\ pc = "input" /\ args.op = "enforceMaxLength"
    /\ result' = enforceMaxLength(args.message, args.maxLength)
    /\ pc' = "enforceMaxLength"
    /\ PostFrame

ApplyDeduplicateMessages ==
    /\ mode = "post" /\ pc = "input" /\ args.op = "deduplicateMessages"
    /\ result' = deduplicateMessages(args.array)
    /\ pc' = "deduplicateMessages"
    /\ PostFrame

ApplyBuildCompactSummary ==
    /\ mode = "post" /\ pc = "input" /\ args.op = "buildCompactSummary"
    /\ result' = buildCompactSummary(args.fileStats, args.maxFiles)
    /\ pc' = "buildCompactSummary"
    /\ PostFrame

PostNext ==
    \/ ApplySanitizeMessage \/ ApplyEnforceMaxLength
    \/ ApplyDeduplicateMessages \/ ApplyBuildCompactSummary

PostSpec == PostInit /\ [][PostNext]_vars

-----------------------------------------------------------------------------
(* The completion service as the orchestrator sees it *)

MaxStagedLen == 5        \* symbols in a staged diff
MinChunkSize == 2        \* smallest configured chunk size (tokens)
MaxChunkSize == 3        \* largest configured chunk size (tokens)
MaxN == 1                \* openrouter.ts 54: the request asks for Math.min(n, 1)
MaxGenerate == 2         \* largest config.generate tried (the parser allows 5)
LargeDiffThreshold == 24 \* stands for 50000 in `staged.diff.length > 50000`

StagedAlphabet == {"D", "x", "\n"}

\* Raw contents a choice of a response may carry
RawTexts == {<<>>, <<" ">>, <<"a">>, <<"'", "b", ".">>}

\* A call throws (an API or network error, or the abort of its timer) or
\* resolves to the contents of at most MaxN choices
Failure == [ok |-> FALSE, why |-> "error", choices |-> <<>>]

Timeout == [ok |-> FALSE, why |-> "timeout", choices |-> <<>>]

Resolved(c) == [ok |-> TRUE, why |-> "none", choices |-> c]

Responses ==
    {Failure, Timeout} \cup {Resolved(c) : c \in SeqsUpTo(RawTexts, MaxN)}

\* generateCommitMessage / generateCommitMessageFromSummary (openrouter.ts):
\* choices -> content || '' -> sanitizeMessage -> filter(Boolean) -> dedupe
CleanAll(choices) ==
    deduplicateMessages(
        FilterNonEmpty([i \in 1..Len(choices) |-> sanitizeMessage(choices[i])]))

\* the same in ai.ts
CleanAllAi(choices) ==
    deduplicateMessages(
        FilterNonEmpty([i \in 1..Len(choices) |-> sanitizeMessageAi(choices[i])]))

\* (choices || []).map(c => c.message?.content).filter(Boolean)
Texts(choices) == FilterNonEmpty(choices)

\* chunkMessages.map((msg, i) => `${i + 1}. ${msg}`)
NumberedList(msgs) == [i \in 1..Len(msgs) |-> <<i, msgs[i]>>]

\* The characters of a line with the prefix symbols spelled out in words:
\* "D" is 'diff', blank, '--git', blank
RECURSIVE SpellOut(_)
SpellOut(s) ==
    IF s = <<>> THEN <<>>
    ELSE (IF Head(s) = "D" THEN <<"diff", " ", "--git", " ">>
          ELSE IF Head(s) = "d" THEN <<"diff", " ", "--git">>
          ELSE <<Head(s)>>) \o SpellOut(Tail(s))

\* .replace('a/', ''): the first 'a/' (symbol "A") is removed
RECURSIVE RemoveFirstA(_)
RemoveFirstA(s) ==
    IF s = <<>> THEN <<>>
    ELSE IF Head(s) = "A" THEN Tail(s)
    ELSE <<Head(s)>> \o RemoveFirstA(Tail(s))

\* block.split('\n', 1)[0].split(' ')[2]?.replace('a/', '') || ''
FileNameOf(block) ==
    LET first == Head(Split(block, "\n"))
        parts == Split(SpellOut(first), " ")
    IN IF Len(parts) >= 3 THEN RemoveFirstA(parts[3]) ELSE <<>>

\* splitDiffByFile(diff).map(...).filter(Boolean).slice(0, 15)
FileNames(text) ==
    LET blocks == splitDiffByFile(text)
        names  == FilterNonEmpty([i \in 1..Len(blocks) |-> FileNameOf(blocks[i])])
    IN SubSeq(names, 1, IF Len(names) < 15 THEN Len(names) ELSE 15)

\* staged.diff.length > 50000
isLargeDiff(text) == StrLen(text) > LargeDiffThreshold

-----------------------------------------------------------------------------
(* The CLI command (commands/lazycommit.ts) on the OpenRouter provider      *)
(* (utils/openrouter.ts) and the prepare-commit-msg hook                    *)
(* (commands/prepare-commit-msg-hook.ts, utils/ai.ts)                       *)

\* One createChatCompletion call: the user-turn payload, the n it puts in
\* the request body (openrouter.ts 54: Math.min(n, 1)) and how it ended
Call(kind, payload, n, r) ==
    [kind |-> kind, payload |-> payload, n |-> IF n < MaxN THEN n ELSE MaxN,
     slot |-> 1, ok |-> r.ok, why |-> r.why, choices |-> r.choices]

\* The commit message file holds a sequence of items
Item(k, v) == [k |-> k, v |-> v]

BaseMessages == {<<>>, <<Item("base", <<>>)>>}

\* getStagedDiff (git.ts 83-106): the output of `git diff --cached` for a
\* non-empty file list opens with a file-introducing line
StagedDiffs ==
    {d \in SeqsUpTo(StagedAlphabet, MaxStagedLen) : d # <<>> /\ Head(d) = "D"}

\* getStagedDiff (git.ts 91-93) returns nothing when `git diff --cached
\* --name-only` prints no file; the diff of no file is the empty text
NothingStaged == <<>>

\* prepare-commit-msg-hook.ts 10: what git passes as the commit source, such
\* as "message" for `git commit -m`
CommitSources == {"message", "merge"}

Init ==
    /\ mode \in {"cli", "hook"}
    /\ pc = "start"
    /\ diff \in StagedDiffs \cup {NothingStaged}
    /\ mode = "hook" => diff \in {<<"D", "x">>, NothingStaged}
    /\ commitSource \in CommitSources \cup {NoCommitSource}
    /\ mode = "cli" => commitSource = NoCommitSource
    /\ NoSecrets /\ hookEntry = <<>>
    /\ chunkSize \in MinChunkSize..MaxChunkSize
    /\ baseMessage \in BaseMessages
    /\ mode = "cli" => baseMessage = <<>>
    /\ hookFile = baseMessage
    /\ chunks = <<>> /\ compact = "unknown" /\ idx = 0
    /\ chunkMessages = <<>> /\ calls = <<>>
    /\ generate \in 1..MaxGenerate
    \* the CLI's calls carry Math.min(n, 1): the least and the greatest
    \* config.generate are told apart by nothing else
    /\ mode = "cli" => generate \in {1, MaxGenerate}
    /\ messages = <<>> /\ outcome = "running" /\ error = "none"
    /\ commits = <<>>
    /\ inflight = <<>> /\ args = <<>> /\ result = <<>>

\* The generation returned msgs to its caller.  CLI: lazycommit.ts 163-165
\* throws when the list is empty; hook: goes on to write the file.
Return(msgs) ==
    /\ outcome' = "completed"
    /\ messages' = msgs
    /\ IF mode = "cli"
       THEN IF Len(msgs) = 0
            THEN error' = "NoCommitMessages" /\ pc' = "exit1"
            ELSE error' = error /\ pc' = "confirm"
       ELSE error' = error /\ pc' = "hookWrite"

\* The generation threw; both callers catch, print the error and exit(1)
Throw(err) ==
    /\ outcome' = "failed"
    /\ messages' = messages
    /\ error' = err
    /\ pc' = "exit1"

\* lazycommit.ts 62-70 and 195-199: nothing staged throws a KnownError, which
\* the catch prints before process.exit(1);
\* prepare-commit-msg-hook.ts 25-29: nothing staged returns
NoStagedChanges ==
    /\ pc = "start" /\ diff = NothingStaged
    /\ commitSource = NoCommitSource
    /\ \/ mode = "cli" /\ error' = "NoStagedChanges"
       \/ mode = "hook" /\ error' = error
    /\ pc' = "noStaged"
    /\ UNCHANGED <<otherVars, args, result, inflight, mode, diff, chunkSize, chunks,
                   compact, idx, chunkMessages, generate, calls, messages,
                   outcome, commits, baseMessage, hookFile>>

\* SelectStrategy without the `if (compact)` test of lazycommit.ts 122
SelectStrategyNoDigestTest ==
    /\ mode = "cli" /\ pc = "start" /\ diff # NothingStaged
    /\ IF isLargeDiff(diff)
       THEN \E c \in {"built", "null"} : compact' = c /\ pc' = "summary"
       ELSE compact' = compact /\ pc' = "fromChunks"
    /\ UNCHANGED <<otherVars, args, result, inflight, mode, diff, chunkSize, chunks, idx, chunkMessages,
                   generate, calls, messages, outcome, error, commits,
                   baseMessage, hookFile>>

\* lazycommit.ts 119-158: the strategy for the staged diff
SelectStrategy ==
    /\ mode = "cli" /\ pc = "start" /\ diff # NothingStaged
    /\ IF isLargeDiff(diff)
       THEN \E c \in {"built", "null"} :
               /\ compact' = c
               /\ pc' = IF c = "built" THEN "summary" ELSE "fromChunks"
       ELSE compact' = compact /\ pc' = "fromChunks"
    /\ UNCHANGED <<otherVars, args, result, inflight, mode, diff, chunkSize, chunks, idx, chunkMessages,
                   generate, calls, messages, outcome, error, commits,
                   baseMessage, hookFile>>

\* openrouter.ts 316-353: generateCommitMessageFromSummary
SummaryCall ==
    /\ mode = "cli" /\ pc = "summary"
    /\ \E r \in Responses :
          /\ calls' = Append(calls, Call("summary", <<"digest">>, generate, r))
          /\ IF ~r.ok
             THEN Throw(IF r.why = "timeout" THEN "TimedOut" ELSE "ProviderError")
             ELSE Return(CleanAll(r.choices))
    /\ UNCHANGED <<otherVars, args, result, inflight, mode, diff, chunkSize, chunks, compact, idx, chunkMessages,
                   generate, commits, baseMessage, hookFile>>

\* openrouter.ts 187-203: partition, then one chunk => direct generation
EnterFromChunks ==
    /\ mode = "cli" /\ pc = "fromChunks"
    /\ chunks' = BuildChunks(diff, chunkSize)
    /\ idx' = 1
    /\ pc' = IF Len(chunks') = 1 THEN "direct"
             ELSE IF Len(chunks') = 0 THEN "fallback" ELSE "perChunk"
    /\ UNCHANGED <<otherVars, args, result, inflight, mode, diff, chunkSize, compact, chunkMessages,
                   generate, calls, messages, outcome, error, commits,
                   baseMessage, hookFile>>

\* openrouter.ts 192-200 with generateCommitMessage (123-173)
DirectCall ==
    /\ mode = "cli" /\ pc = "direct"
    /\ \E r \in Responses :
          /\ calls' = Append(calls, Call("direct", diff, generate, r))
          /\ IF ~r.ok THEN Throw("FailedToGenerate")
             ELSE Return(CleanAll(r.choices))
    /\ UNCHANGED <<otherVars, args, result, inflight, mode, diff, chunkSize, chunks, compact, idx, chunkMessages,
                   generate, commits, baseMessage, hookFile>>

\* AfterChunk with `chunkMessages.length > 1` of openrouter.ts 285 as `> 0`
AfterChunkSynthesizeOne(i, msgs) ==
    IF i < Len(chunks) THEN "perChunk"
    ELSE IF Len(msgs) = 0 THEN "fallback"
    ELSE "synthesis"

\* Where the loop of 205-241 leaves for, once chunk i is done
AfterChunk(i, msgs) ==
    IF i < Len(chunks) THEN "perChunk"
    ELSE IF Len(msgs) = 0 THEN "fallback"
    ELSE IF Len(msgs) > 1 THEN "synthesis"
    ELSE "single"

\* ChunkCall where the abort of a chunk call's timer is not caught
ChunkCallTimeoutAborts ==
    /\ mode = "cli" /\ pc = "perChunk" /\ idx <= Len(chunks)
    /\ \E r \in Responses :
          /\ calls' = Append(calls, Call("chunk", chunks[idx], 1, r))
          /\ chunkMessages' =
                IF r.ok /\ Len(Texts(r.choices)) > 0
                THEN Append(chunkMessages, sanitizeMessage(Texts(r.choices)[1]))
                ELSE chunkMessages
          /\ IF r.why = "timeout"
             THEN Throw("TimedOut")
             ELSE /\ pc' = AfterChunk(idx, chunkMessages')
                  /\ UNCHANGED <<messages, outcome, error>>
    /\ idx' = idx + 1
    /\ UNCHANGED <<otherVars, args, result, inflight, mode, diff, chunkSize, chunks,
                   compact, generate, commits, baseMessage, hookFile>>

\* ChunkCall without the try/catch of openrouter.ts 216-240: a chunk's
\* failure leaves the function
ChunkCallUncaught ==
    /\ mode = "cli" /\ pc = "perChunk" /\ idx <= Len(chunks)
    /\ \E r \in Responses :
          /\ calls' = Append(calls, Call("chunk", chunks[idx], 1, r))
          /\ chunkMessages' =
                IF r.ok /\ Len(Texts(r.choices)) > 0
                THEN Append(chunkMessages, sanitizeMessage(Texts(r.choices)[1]))
                ELSE chunkMessages
          /\ IF r.ok
             THEN /\ pc' = AfterChunk(idx, chunkMessages')
                  /\ UNCHANGED <<messages, outcome, error>>
             ELSE Throw("ProviderError")
    /\ idx' = idx + 1
    /\ UNCHANGED <<otherVars, args, result, inflight, mode, diff, chunkSize, chunks, compact, generate, commits,
                   baseMessage, hookFile>>

\* ChunkCall where a chunk whose call failed is called once more
ChunkCallRetries ==
    /\ mode = "cli" /\ pc = "perChunk" /\ idx <= Len(chunks)
    /\ \E r \in Responses :
          /\ calls' = Append(calls, Call("chunk", chunks[idx], 1, r))
          /\ chunkMessages' =
                IF r.ok /\ Len(Texts(r.choices)) > 0
                THEN Append(chunkMessages, sanitizeMessage(Texts(r.choices)[1]))
                ELSE chunkMessages
          /\ IF ~r.ok /\ Len(calls) < idx
             THEN idx' = idx /\ pc' = pc
             ELSE idx' = idx + 1 /\ pc' = AfterChunk(idx, chunkMessages')
    /\ UNCHANGED <<otherVars, args, result, inflight, mode, diff, chunkSize, chunks,
                   compact, generate, messages, outcome, error, commits,
                   baseMessage, hookFile>>

\* openrouter.ts 205-241: one iteration of the per-chunk loop
ChunkCall ==
    /\ mode = "cli" /\ pc = "perChunk" /\ idx <= Len(chunks)
    /\ \E r \in Responses :
          /\ calls' = Append(calls, Call("chunk", chunks[idx], 1, r))
          /\ chunkMessages' =
                IF r.ok /\ Len(Texts(r.choices)) > 0
                THEN Append(chunkMessages, sanitizeMessage(Texts(r.choices)[1]))
                ELSE chunkMessages
    /\ idx' = idx + 1
    /\ pc' = AfterChunk(idx, chunkMessages')
    /\ UNCHANGED <<otherVars, args, result, inflight, mode, diff, chunkSize, chunks, compact, generate, messages,
                   outcome,
                   error, commits, baseMessage, hookFile>>

\* openrouter.ts 313: exactly one chunk message is returned as it is
ReturnSingle ==
    /\ mode = "cli" /\ pc = "single"
    /\ Return(chunkMessages)
    /\ UNCHANGED <<otherVars, args, result, inflight, mode, diff, chunkSize, chunks, compact, idx, chunkMessages,
                   generate, calls, commits, baseMessage, hookFile>>

\* FallbackCall without the throw of openrouter.ts 281
FallbackCallNoThrow ==
    /\ mode = "cli" /\ pc = "fallback"
    /\ \E r \in Responses :
          /\ calls' = Append(calls, Call("fallback", FileNames(diff), 1, r))
          /\ IF r.ok /\ Len(Texts(r.choices)) > 0
             THEN Return(<<sanitizeMessage(Texts(r.choices)[1])>>)
             ELSE Return(<<>>)
    /\ UNCHANGED <<otherVars, args, result, inflight, mode, diff, chunkSize, chunks, compact, idx, chunkMessages,
                   generate, commits, baseMessage, hookFile>>

\* openrouter.ts 243-282: the file-name fallback
FallbackCall ==
    /\ mode = "cli" /\ pc = "fallback"
    /\ \E r \in Responses :
          /\ calls' = Append(calls, Call("fallback", FileNames(diff), 1, r))
          /\ IF r.ok /\ Len(Texts(r.choices)) > 0
             THEN Return(<<sanitizeMessage(Texts(r.choices)[1])>>)
             ELSE Throw("NoChunkMessages")
    /\ UNCHANGED <<otherVars, args, result, inflight, mode, diff, chunkSize, chunks, compact, idx, chunkMessages,
                   generate, commits, baseMessage, hookFile>>

\* SynthesisCall without the try/catch of openrouter.ts 293-310
SynthesisCallUncaught ==
    /\ mode = "cli" /\ pc = "synthesis"
    /\ \E r \in Responses :
          /\ calls' = Append(calls, Call("synthesis",
                           NumberedList(chunkMessages), generate, r))
          /\ IF ~r.ok THEN Throw("ProviderError")
             ELSE Return(CleanAll(r.choices))
    /\ UNCHANGED <<otherVars, args, result, inflight, mode, diff, chunkSize, chunks, compact, idx, chunkMessages,
                   generate, commits, baseMessage, hookFile>>

\* openrouter.ts 285-311: the synthesis call
SynthesisCall ==
    /\ mode = "cli" /\ pc = "synthesis"
    /\ \E r \in Responses :
          /\ calls' = Append(calls, Call("synthesis",
                           NumberedList(chunkMessages), generate, r))
          /\ IF ~r.ok THEN Return(chunkMessages)
             ELSE Return(CleanAll(r.choices))
    /\ UNCHANGED <<otherVars, args, result, inflight, mode, diff, chunkSize, chunks, compact, idx, chunkMessages,
                   generate, commits, baseMessage, hookFile>>

\* Confirm where declining the prompt still runs git commit
ConfirmIgnoresAnswer ==
    /\ mode = "cli" /\ pc = "confirm"
    /\ \E k \in 1..Len(messages) :
          /\ commits' = Append(commits, messages[k])
          /\ pc' \in {"committed", "cancelled"}
    /\ UNCHANGED <<otherVars, args, result, inflight, mode, diff, chunkSize, chunks, compact, idx, chunkMessages,
                   generate, calls, messages, outcome, error,
                   baseMessage, hookFile>>

\* lazycommit.ts 167-194: confirm or select, then git commit
Confirm ==
    /\ mode = "cli" /\ pc = "confirm"
    /\ \/ \E k \in 1..Len(messages) :
             /\ commits' = Append(commits, messages[k])
             /\ pc' = "committed"
       \/ commits' = commits /\ pc' = "cancelled"
    /\ UNCHANGED <<otherVars, args, result, inflight, mode, diff, chunkSize, chunks, compact, idx, chunkMessages,
                   generate, calls, messages, outcome, error,
                   baseMessage, hookFile>>

\* HookIgnore without the `if (commitSource)` test of
\* prepare-commit-msg-hook.ts 21: the hook goes on to generate
HookIgnoreGenerates ==
    /\ mode = "hook" /\ pc = "start" /\ commitSource # NoCommitSource
    /\ diff # NothingStaged
    /\ \E c \in {"built", "null"} : compact' = c
    /\ pc' = "hookCall"
    /\ UNCHANGED <<otherVars, args, result, inflight, mode, diff, chunkSize, chunks, idx, chunkMessages,
                   generate, calls, messages, outcome, error, commits,
                   baseMessage, hookFile>>

\* prepare-commit-msg-hook.ts 20-23: a commit message was passed in, return
HookIgnore ==
    /\ mode = "hook" /\ pc = "start" /\ commitSource # NoCommitSource
    /\ pc' = "ignored"
    /\ UNCHANGED <<otherVars, args, result, inflight, mode, diff, chunkSize, chunks, compact, idx,
                   chunkMessages, generate, calls, messages, outcome, error,
                   commits, baseMessage, hookFile>>

\* prepare-commit-msg-hook.ts 46-75: the digest, or the file list without it
HookStart ==
    /\ mode = "hook" /\ pc = "start" /\ diff # NothingStaged
    /\ commitSource = NoCommitSource
    /\ \E c \in {"built", "null"} : compact' = c
    /\ pc' = "hookCall"
    /\ UNCHANGED <<otherVars, args, result, inflight, mode, diff, chunkSize, chunks, idx, chunkMessages,
                   generate, calls, messages, outcome, error, commits,
                   baseMessage, hookFile>>

\* One generateText call of the hook, as Promise.all sees it
Pending == [done |-> FALSE, ok |-> FALSE, text |-> <<>>]

Settled(r) ==
    [done |-> TRUE, ok |-> r.ok,
     text |-> IF Len(r.choices) > 0 THEN r.choices[1] ELSE <<>>]

\* generateText throws or resolves to one text
TextResponses == {Failure, Timeout} \cup {Resolved(<<t>>) : t \in RawTexts}

\* completions.map(completion => ({ message: { content: completion.text } }))
ChoicesOf(settled) == [i \in 1..Len(settled) |-> settled[i].text]

\* ai.ts 214-231 with createChatCompletion 104-135: n generateText calls are
\* started in one go, each with its own AbortSignal.timeout
HookIssue ==
    /\ mode = "hook" /\ pc = "hookCall"
    /\ inflight' = [i \in 1..generate |-> Pending]
    /\ pc' = "hookAwait"
    /\ UNCHANGED <<otherVars, args, result, mode, diff, chunkSize, chunks, compact, idx,
                   chunkMessages, generate, calls, messages, outcome, error,
                   commits, baseMessage, hookFile>>

\* HookSettle with Promise.allSettled in place of Promise.all: the calls that
\* resolved are returned once every call has settled
HookSettleAllSettled(i) ==
    /\ mode = "hook" /\ pc = "hookAwait"
    /\ i \in 1..Len(inflight) /\ ~inflight[i].done
    /\ \E r \in TextResponses :
          /\ inflight' = [inflight EXCEPT ![i] = Settled(r)]
          /\ calls' = Append(calls,
                [kind |-> "summary",
                 payload |-> IF compact = "built" THEN <<"digest">>
                             ELSE <<"fileList">>,
                 n |-> 1, slot |-> i, ok |-> r.ok, why |-> r.why,
                 choices |-> r.choices])
          /\ IF \A k \in 1..Len(inflight') : inflight'[k].done
             THEN Return(CleanAllAi(ChoicesOf(
                      SelectSeq(inflight', LAMBDA c : c.ok))))
             ELSE UNCHANGED <<messages, outcome, error, pc>>
    /\ UNCHANGED <<otherVars, args, result, mode, diff, chunkSize, chunks, compact, idx,
                   chunkMessages, generate, commits, baseMessage, hookFile>>

\* ai.ts 104-149 and 233-247: one of the calls in flight completes.
\* Promise.all rejects as soon as one call does, and resolves once all have,
\* to the results in the order the calls were started.
HookSettle(i) ==
    /\ mode = "hook" /\ pc = "hookAwait"
    /\ i \in 1..Len(inflight) /\ ~inflight[i].done
    /\ \E r \in TextResponses :
          /\ inflight' = [inflight EXCEPT ![i] = Settled(r)]
          /\ calls' = Append(calls,
                [kind |-> "summary",
                 payload |-> IF compact = "built" THEN <<"digest">>
                             ELSE <<"fileList">>,
                 n |-> 1, slot |-> i, ok |-> r.ok, why |-> r.why,
                 choices |-> r.choices])
          /\ IF ~r.ok THEN Throw("ProviderError")
             ELSE IF \A k \in 1..Len(inflight') : inflight'[k].done
             THEN Return(CleanAllAi(ChoicesOf(inflight')))
             ELSE UNCHANGED <<messages, outcome, error, pc>>
    /\ UNCHANGED <<otherVars, args, result, mode, diff, chunkSize, chunks, compact, idx,
                   chunkMessages, generate, commits, baseMessage, hookFile>>

\* prepare-commit-msg-hook.ts 90-107: commitMessage.  messages[0] of an empty
\* list is undefined: a template literal renders it as the text 'undefined',
\* and without a template the value itself stays undefined.
Defined(text) == [defined |-> TRUE, text |-> text]

Undefined == [defined |-> FALSE, text |-> <<>>]

CommitMessage(msgs, supportsComments) ==
    IF Len(msgs) > 1
    THEN Defined((IF supportsComments THEN <<Item("header", <<>>)>> ELSE <<>>)
                 \o [i \in 1..Len(msgs) |-> Item("commented", msgs[i])])
    ELSE LET first == IF Len(msgs) = 0 THEN Item("undefined", <<>>)
                      ELSE Item("message", msgs[1])
         IN IF supportsComments THEN Defined(<<first, Item("marker", <<>>)>>)
            ELSE IF Len(msgs) = 0 THEN Undefined
            ELSE Defined(<<first>>)

\* prepare-commit-msg-hook.ts 86-112: read the file, prepend, write.
\* fs.writeFile(path, undefined) rejects with a TypeError before it opens
\* the file.
HookWrite ==
    /\ mode = "hook" /\ pc = "hookWrite"
    /\ LET supportsComments == baseMessage # <<>>
           commitMessage == CommitMessage(messages, supportsComments)
       IN IF ~commitMessage.defined
          THEN /\ error' = "InvalidArgType" /\ pc' = "exit1"
               /\ hookFile' = hookFile
          ELSE /\ hookFile' = commitMessage.text \o baseMessage
               /\ error' = error /\ pc' = "saved"
    /\ UNCHANGED <<otherVars, args, result, inflight, mode, diff, chunkSize, chunks, compact, idx, chunkMessages,
                   generate, calls, messages, outcome, commits,
                   baseMessage>>

Next ==
    \/ NoStagedChanges
    \/ SelectStrategy \/ SummaryCall \/ EnterFromChunks \/ DirectCall
    \/ ChunkCall \/ ReturnSingle \/ FallbackCall \/ SynthesisCall \/ Confirm
    \/ HookIgnore
    \/ HookStart \/ HookIssue \/ (\E i \in 1..MaxGenerate : HookSettle(i))
    \/ HookWrite

Spec == Init /\ [][Next]_vars

\* EnterFromChunks and FallbackCall seen as their change of pc: they are the
\* only steps of Next that leave "fromChunks" and "fallback"
LeaveFromChunks ==
    mode = "cli" /\ pc = "fromChunks" /\ pc' \in {"direct", "fallback", "perChunk"}

LeaveFallback ==
    mode = "cli" /\ pc = "fallback" /\ pc' \in {"confirm", "exit1"}

\* the steps of Next that wait for something: a completion call, the file
\* system or the prompt
Awaited ==
    \/ NoStagedChanges \/ SelectStrategy \/ SummaryCall \/ DirectCall
    \/ ChunkCall \/ ReturnSingle \/ SynthesisCall \/ Confirm
    \/ HookIgnore
    \/ HookStart \/ HookIssue \/ (\E i \in 1..MaxGenerate : HookSettle(i))
    \/ HookWrite

\* every await resumes: a completion call returns, throws or is aborted by
\* its timer (openrouter.ts 34-35, ai.ts 116), and the prompt is answered
LiveSpec ==
    Spec /\ WF_vars(Awaited) /\ WF_pc(LeaveFromChunks) /\ WF_pc(LeaveFallback)

\* the entry point has run to its end
Terminated == pc \in {"exit1", "committed", "cancelled", "saved"}

-----------------------------------------------------------------------------
(* Claims about the partitioner (checked under PartSpec) *)

\* The lines of a text, as chunkDiff and splitDiffByFile see them
Lines(text) == Split(text, "\n")

SeqToSet(s) == {s[i] : i \in 1..Len(s)}

\* C1: concatenating, in order, the chunks produced for a diff (by chunkDiff
\* on the whole text, or by splitDiffByFile followed by chunkDiff on each
\* segment) gives back the diff, character for character.
C1_ConcatReproducesDiff ==
    pc \in {"chunkDiff", "buildChunks"} => Concat(chunks) = diff

\* C2: every chunk of chunkDiff(D, B) costs at most B tokens, unless it is a
\* single source line that alone costs more than B; and every line of D with
\* content is (up to the blanks around it) a line of some chunk.
C2_ChunksWithinBudget ==
    pc = "chunkDiff" =>
        /\ \A i \in 1..Len(chunks) :
              \/ estimateTokenCount(chunks[i]) <= chunkSize
              \/ Len(Lines(chunks[i])) = 1
        /\ \A l \in SeqToSet(Lines(diff)) :
              Trim(l) # <<>> =>
                  \E i \in 1..Len(chunks) :
                      \E k \in SeqToSet(Lines(chunks[i])) : Trim(k) = Trim(l)

\* C3: no element of the chunk sequence built by the chunked path is the
\* empty string, whatever the diff.
C3_NoEmptyChunk ==
    pc = "buildChunks" => \A i \in 1..Len(chunks) : chunks[i] # <<>>

-----------------------------------------------------------------------------
(* Claims about the orchestrator and its callers (checked under Spec) *)

\* the calls of one kind, in the order they were made
CallsOf(kind) == SelectSeq(calls, LAMBDA c : c.kind = kind)

\* the call resolved and carried a text
Yielded(c) == c.ok /\ Len(Texts(c.choices)) > 0

\* the message the orchestrator takes from a call that yielded one
MessageOf(c) == sanitizeMessage(Texts(c.choices)[1])

\* the messages of the chunk calls that yielded one, in chunk order
YieldedMessages ==
    LET ys == SelectSeq(CallsOf("chunk"), Yielded)
    IN [i \in 1..Len(ys) |-> MessageOf(ys[i])]

\* the chunked path proper: more than one chunk
Chunked == mode = "cli" /\ Len(chunks) > 1

\* every chunk so far got exactly one call, in chunk order, and once the
\* loop is left every chunk got its call
EveryChunkCalled ==
    /\ Len(CallsOf("chunk")) = idx - 1
    /\ \A i \in 1..Len(CallsOf("chunk")) : CallsOf("chunk")[i].payload = chunks[i]
    /\ pc # "perChunk" => Len(CallsOf("chunk")) = Len(chunks)

\* C4: a staged diff below the size threshold is generated directly: one
\* completion call, whose user payload is the whole diff, however many files
\* the diff spans.
C4_SmallDiffIsDirect ==
    (mode = "cli" /\ ~isLargeDiff(diff) /\ Terminated) =>
        /\ Len(calls) = 1
        /\ calls[1].kind = "direct"
        /\ calls[1].payload = diff

C7_SynthesisIffSeveral ==
    (Chunked /\ pc # "perChunk") =>
        LET synth == CallsOf("synthesis")
            yielded == YieldedMessages
        IN
        /\ Len(synth) <= 1
        /\ outcome # "running" => (Len(synth) = 1 <=> Len(yielded) > 1)
        /\ Len(synth) = 1 =>
              /\ Len(synth[1].payload) = Len(yielded)
              /\ \A i \in 1..Len(yielded) :
                    synth[1].payload[i] = <<i, yielded[i]>>
        /\ (outcome # "running" /\ Len(yielded) = 1) =>
              /\ outcome = "completed"
              /\ messages = yielded
              /\ Len(calls) = Len(chunks)

C7_Witness ==
    /\ Chunked /\ Len(chunks) = 3 /\ Len(CallsOf("synthesis")) = 1
    /\ ~CallsOf("chunk")[2].ok
    /\ Len(CallsOf("synthesis")[1].payload) = 2
    /\ YieldedMessages[1] # YieldedMessages[2]

\* C8: when the synthesis call fails the generation still completes, and
\* returns the chunk messages in chunk order.
C8_SynthesisFailureDegrades ==
    (mode = "cli" /\ CallsOf("synthesis") # <<>>
        /\ ~CallsOf("synthesis")[1].ok) =>
        /\ outcome = "completed"
        /\ messages = YieldedMessages
        /\ error = "none"
        /\ pc \in {"confirm", "committed", "cancelled"}

C8_Witness ==
    /\ mode = "cli" /\ CallsOf("synthesis") # <<>>
    /\ ~CallsOf("synthesis")[1].ok
    /\ Len(messages) = 2 /\ messages[1] # messages[2]

\* every chunk's call threw
AllChunksFailed ==
    /\ Chunked /\ pc # "perChunk"
    /\ \A i \in 1..Len(CallsOf("chunk")) : ~CallsOf("chunk")[i].ok

\* the fallback call is the one extra call, made from the file names
OneFallbackCall ==
    LET fb == CallsOf("fallback") IN
    /\ CallsOf("synthesis") = <<>>
    /\ Len(fb) <= 1
    /\ outcome # "running" => Len(fb) = 1 /\ Len(calls) = Len(chunks) + 1
    /\ Len(fb) = 1 => fb[1].payload = FileNames(diff)

\* C9 as stated: when every chunk's call fails one fallback call is made from
\* the file names; if it succeeds one message is returned, if it fails the
\* generation fails with the no-messages condition.
C9_FallbackSucceedsOrFails ==
    AllChunksFailed =>
        /\ OneFallbackCall
        /\ \A i \in 1..Len(CallsOf("fallback")) :
              IF CallsOf("fallback")[i].ok
              THEN outcome = "completed" /\ Len(messages) = 1
              ELSE outcome = "failed" /\ error = "NoChunkMessages"

\* C9 amended: when every chunk's call fails one fallback call is made from
\* the file names; if it resolves with a text one message is returned, and
\* if it fails or resolves without a text the generation fails with the
\* no-messages condition.
C9_FallbackYieldsOrFails ==
    AllChunksFailed =>
        /\ OneFallbackCall
        /\ \A i \in 1..Len(CallsOf("fallback")) :
              IF Yielded(CallsOf("fallback")[i])
              THEN /\ outcome = "completed"
                   /\ messages = <<MessageOf(CallsOf("fallback")[i])>>
              ELSE outcome = "failed" /\ error = "NoChunkMessages"

C9_Witness ==
    /\ AllChunksFailed /\ Len(CallsOf("fallback")) = 1
    /\ Yielded(CallsOf("fallback")[1])
    /\ outcome = "completed" /\ Len(messages) = 1
    /\ FileNames(diff) # <<>>

\* C10: when the generation yields no message, the caller ends with an
\* error shown to the user: the CLI ran no git commit and the hook left the
\* commit message file as it was.
C10_NoMessagesSurfaced ==
    (mode \in {"cli", "hook"} /\ Terminated /\ messages = <<>>) =>
        /\ error # "none"
        /\ commits = <<>>
        /\ hookFile = baseMessage

\* the configured max-length of a message (symbols), for the bounded texts
MaxMessageLength == 2

\* C11: no message list returned by a generation (direct, summary, lone
\* chunk message, degraded list, file-name fallback) holds an empty string.
C11_NoEmptyMessage ==
    outcome = "completed" => \A i \in 1..Len(messages) : messages[i] # <<>>

\* C12: every message returned by a generation is at most the configured
\* maximum long, neither starts nor ends with a quote character, and holds
\* no newline or carriage return.
C12_CandidateMessageInvariant ==
    outcome = "completed" =>
        \A i \in 1..Len(messages) :
            LET m == messages[i] IN
            /\ Len(m) <= MaxMessageLength
            /\ m # <<>> => ~IsQuote(Head(m)) /\ ~IsQuote(m[Len(m)])
            /\ \A k \in 1..Len(m) : m[k] \notin {"\n", "\r"}

-----------------------------------------------------------------------------
(* Claims about the post-processor and the summarizer (checked under        *)
(* PostSpec)                                                                *)

\* C13: enforceMaxLength(m, L) is at most L long, on every branch of the
\* boundary search, the hard cut included.
C13_TruncationWithinMaximum ==
    pc = "enforceMaxLength" => Len(result) <= args.maxLength

\* C14: sanitizeMessage is idempotent: cleaning a cleaned message changes
\* nothing, for either sanitizeMessage.
C14_SanitizeIdempotent ==
    pc = "sanitizeMessage" =>
        /\ sanitizeMessage(result.openrouter) = result.openrouter
        /\ sanitizeMessageAi(result.ai) = result.ai

\* position of the first occurrence of x in the sequence s
FirstIndex(s, x) == CHOOSE i \in 1..Len(s) : s[i] = x /\ \A j \in 1..(i - 1) : s[j] # x

\* C15: deduplicateMessages returns the distinct elements of its input, each
\* once, in the order of their first occurrence.
C15_DeduplicationKeepsFirstSeen ==
    pc = "deduplicateMessages" =>
        /\ \A i, j \in 1..Len(result) : result[i] = result[j] => i = j
        /\ SeqToSet(result) = SeqToSet(args.array)
        /\ \A i, j \in 1..Len(result) :
              i < j => FirstIndex(args.array, result[i])
                          < FirstIndex(args.array, result[j])

C15_Witness ==
    /\ pc = "deduplicateMessages"
    /\ args.array = <<<<"b">>, <<"a">>, <<"b">>, <<"a">>>>
    /\ result = <<<<"b">>, <<"a">>>>

\* the listed entries are in descending order of changes, ties in input
\* order (file is the position in the input)
ListedInOrder ==
    \A i, j \in 1..Len(result.top) :
        i < j => \/ result.top[i].changes > result.top[j].changes
                 \/ /\ result.top[i].changes = result.top[j].changes
                    /\ result.top[i].file < result.top[j].file

\* the listed entries are the first of the whole sorted list: none left out
\* sorts before a listed one
ListedAreTop ==
    /\ \A i \in 1..Len(result.top) :
          result.top[i] \in SeqToSet(args.fileStats)
    /\ \A f \in SeqToSet(args.fileStats) \ SeqToSet(result.top) :
          \A i \in 1..Len(result.top) :
              \/ result.top[i].changes > f.changes
              \/ /\ result.top[i].changes = f.changes
                 /\ result.top[i].file < f.file

MinOf(a, b) == IF a < b THEN a ELSE b

-----------------------------------------------------------------------------
(* Claims about the callers, continued (checked under Spec and LiveSpec) *)

\* the calls that ask for `generate` completions
CompletionCalls ==
    SelectSeq(calls, LAMBDA c : c.kind \in {"direct", "summary", "synthesis"})

\* C17: when more than one completion is asked for, that many independent
\* calls are made, one per slot, and the generation goes on with the choices
\* of all of them in the order the calls were started.
C17_OneCallPerCompletion ==
    (generate > 1 /\ outcome = "completed" /\ CompletionCalls # <<>>
        /\ \A k \in 1..Len(CompletionCalls) : CompletionCalls[k].ok) =>
        /\ Len(CompletionCalls) = generate
        /\ \A i \in 1..generate :
              \E k \in 1..Len(CompletionCalls) : CompletionCalls[k].slot = i
        /\ LET bySlot == [i \in 1..generate |->
                  LET c == CHOOSE c \in SeqToSet(CompletionCalls) : c.slot = i
                  IN IF Len(c.choices) > 0 THEN c.choices[1] ELSE <<>>]
           IN messages \in {CleanAll(bySlot), CleanAllAi(bySlot)}

\* a call of one of the kinds was aborted by its timer
TimedOut(kinds) ==
    \E k \in 1..Len(calls) : calls[k].kind \in kinds /\ calls[k].why = "timeout"

\* C18: every generation ends, completed or failed; a chunk call's timeout
\* is the failure of that chunk only (the loop goes on to the last chunk and
\* the generation fails only when no chunk yielded a message), while a
\* timeout of the direct or the summary call fails the generation.
C18_TimeoutsAndTermination ==
    /\ []((diff # NothingStaged /\ commitSource = NoCommitSource)
             => <>(outcome \in {"completed", "failed"}))
    /\ []((Chunked /\ TimedOut({"chunk"})) =>
             /\ EveryChunkCalled
             /\ (\E i \in 1..Len(CallsOf("chunk")) : Yielded(CallsOf("chunk")[i]))
                   => outcome # "failed")
    /\ [](TimedOut({"direct", "summary"}) =>
             /\ outcome = "failed" /\ pc = "exit1" /\ error # "none"
             /\ commits = <<>> /\ hookFile = baseMessage)

C18_Witness ==
    /\ Chunked /\ Len(chunks) = 3 /\ outcome = "completed"
    /\ CallsOf("chunk")[2].why = "timeout"
    /\ Yielded(CallsOf("chunk")[1]) /\ Yielded(CallsOf("chunk")[3])

\* C19: with nothing staged the caller ends early without a completion
\* call, without a commit or a write, and without reporting an error.
C19_NothingStagedIsNoError ==
    (diff = NothingStaged /\ pc # "start" /\ commitSource = NoCommitSource) =>
        /\ pc = "noStaged"
        /\ calls = <<>> /\ commits = <<>> /\ hookFile = baseMessage
        /\ error = "none"

-----------------------------------------------------------------------------
(* Claims about the hook's early return (checked under Spec) *)

\* C21: when git passes a commit source (a message given with -m, say) the
\* hook makes no completion call and leaves the commit message file as it
\* was, whatever is staged.
C21_CommitSourceIsIgnored ==
    (mode = "hook" /\ commitSource # NoCommitSource) =>
        /\ calls = <<>> /\ inflight = <<>>
        /\ hookFile = baseMessage
        /\ pc \in {"start", "ignored"}

C21_Witness ==
    /\ mode = "hook" /\ commitSource = "message" /\ pc = "ignored"
    /\ diff # NothingStaged /\ baseMessage # <<>>

-----------------------------------------------------------------------------
(* Secret storage: the SecretsManager, its backends and the migration *)

SupportedBackend == {"keychain", "libsecret", "windows", "env", "file"}

\* manager.ts 17: the order tried when the config names none
DefaultPreferredBackends == <<"keychain", "libsecret", "windows", "env", "file">>

\* migrate.ts 30, also the accounts getAll looks up
ApiKeys == <<"GROQ_API_KEY", "OPENAI_API_KEY", "ANTHROPIC_API_KEY">>

\* the property names of a parsed config file
Keys == {"GROQ_API_KEY", "OPENAI_API_KEY", "ANTHROPIC_API_KEY",
         "provider", "generate"}

\* null or undefined: no password, no property, no backend
Null == "(null)"

\* the truthiness test of `x || null` and `if (x)` on a string or null
Truthy(v) == v # Null /\ v # ""

\* path.join(os.homedir(), '.lazycommit'), the config file (config.ts 155,
\* migrate.ts 15) and the file backend's default path (manager.ts 141-143)
ConfigPath == "~/.lazycommit"

Paths == {ConfigPath, "/tmp/.lazycommit-test"}

NoFile == [exists |-> FALSE, lines |-> {}]

\* an object without properties
EmptyObject == [k \in Keys |-> Null]

\* ini.stringify: a `name=value` line for each property of the object
IniStringify(object) ==
    {<<k, object[k]>> : k \in {n \in Keys : object[n] # Null}}

\* ini.parse: the properties the lines name
IniParse(lines) ==
    [k \in Keys |-> IF \E l \in lines : l[1] = k
                    THEN (CHOOSE l \in lines : l[1] = k)[2]
                    ELSE Null]

\* FileBackend.readConfig, readConfigFile: no file reads as no property
ReadConfig(fs, path) ==
    IF fs[path].exists THEN IniParse(fs[path].lines) ELSE EmptyObject

\* FileBackend.writeConfig
WriteConfig(fs, path, config) ==
    [fs EXCEPT ![path] = [exists |-> TRUE, lines |-> IniStringify(config)]]

\* the three backends over the platform's credential store
IsKeyring(b) == b \in {"keychain", "libsecret", "windows"}

\* SecretStore.isAvailable: the probe of a platform backend answers on its
\* platform when the credential store does; env and file always answer
IsAvailable(b) ==
    CASE b = "keychain" -> platform = "darwin" /\ keyringUp
      [] b = "libsecret" -> platform = "linux" /\ keyringUp
      [] b = "windows" -> platform = "win32" /\ keyringUp
      [] OTHER -> TRUE

NoBackend == Null

\* manager.ts 38-47: the loop over the preferred order, up to its break
RECURSIVE FirstAvailable(_)
FirstAvailable(preferredOrder) ==
    IF preferredOrder = <<>> THEN NoBackend
    ELSE IF IsAvailable(Head(preferredOrder)) THEN Head(preferredOrder)
    ELSE FirstAvailable(Tail(preferredOrder))

\* new SecretsManager(config)
NewManager(preferredBackends, fallbackToFile, fileStoragePath) ==
    [preferredBackends |-> preferredBackends,
     fallbackToFile |-> fallbackToFile,
     fileStoragePath |-> fileStoragePath,
     activeBackend |-> NoBackend,
     initialized |-> FALSE]

\* initialize without the `if (this.initialized) return` of manager.ts 32
initializeAgain(mgr) ==
    LET found == FirstAvailable(mgr.preferredBackends)
        fallback == IF found = NoBackend /\ mgr.fallbackToFile
                    THEN "file" ELSE found
    IN IF fallback = NoBackend
       THEN [mgr |-> mgr, threw |-> TRUE]
       ELSE [mgr |-> [mgr EXCEPT !.activeBackend = fallback,
                                 !.initialized = TRUE],
             threw |-> FALSE]

\* SecretsManager.initialize
initialize(mgr) ==
    IF mgr.initialized THEN [mgr |-> mgr, threw |-> FALSE]
    ELSE LET found == FirstAvailable(mgr.preferredBackends)
             active == IF found # NoBackend THEN found ELSE mgr.activeBackend
             fallback == IF active = NoBackend /\ mgr.fallbackToFile
                         THEN "file" ELSE active
         IN IF fallback = NoBackend
            THEN [mgr |-> [mgr EXCEPT !.activeBackend = fallback],
                  threw |-> TRUE]
            ELSE [mgr |-> [mgr EXCEPT !.activeBackend = fallback,
                                      !.initialized = TRUE],
                  threw |-> FALSE]

\* what a manager operation leaves behind and returns
Out(mgr, kr, fs, threw, value) ==
    [mgr |-> mgr, keyring |-> kr, files |-> fs, threw |-> threw,
     value |-> value]

\* SecretStore.get of the backend b.  The account names here are the names
\* EnvBackend.get turns them into (upper case, no dash).
BackendGet(b, path, account, kr, fs) ==
    CASE b = "file" ->
            LET config == ReadConfig(fs, path)
            IN IF Truthy(config[account]) THEN config[account] ELSE Null
      [] b = "env" ->
            IF Truthy(environ[account]) THEN environ[account] ELSE Null
      [] OTHER -> IF keyringUp THEN kr[account] ELSE Null

\* SecretStore.set: EnvBackend.set throws, setPassword throws when the
\* credential store does not answer
BackendSet(b, path, account, password, kr, fs) ==
    CASE b = "file" ->
            LET config == ReadConfig(fs, path)
            IN [keyring |-> kr, threw |-> FALSE,
                files |-> WriteConfig(fs, path,
                             [config EXCEPT ![account] = password])]
      [] b = "env" -> [keyring |-> kr, files |-> fs, threw |-> TRUE]
      [] OTHER ->
            IF keyringUp
            THEN [keyring |-> [kr EXCEPT ![account] = password],
                  files |-> fs, threw |-> FALSE]
            ELSE [keyring |-> kr, files |-> fs, threw |-> TRUE]

\* SecretStore.delete: EnvBackend.delete throws, the platform backends
\* answer false when deletePassword throws
BackendDelete(b, path, account, kr, fs) ==
    CASE b = "file" ->
            LET config == ReadConfig(fs, path)
            IN IF config[account] # Null
               THEN [keyring |-> kr, threw |-> FALSE, value |-> TRUE,
                     files |-> WriteConfig(fs, path,
                                  [config EXCEPT ![account] = Null])]
               ELSE [keyring |-> kr, files |-> fs, threw |-> FALSE,
                     value |-> FALSE]
      [] b = "env" ->
            [keyring |-> kr, files |-> fs, threw |-> TRUE, value |-> FALSE]
      [] OTHER ->
            IF keyringUp
            THEN [keyring |-> [kr EXCEPT ![account] = Null], files |-> fs,
                  threw |-> FALSE, value |-> TRUE]
            ELSE [keyring |-> kr, files |-> fs, threw |-> FALSE,
                  value |-> FALSE]

\* SecretsManager.getSecret
getSecret(mgr, account, kr, fs) ==
    LET i == initialize(mgr)
    IN IF i.threw THEN Out(i.mgr, kr, fs, TRUE, Null)
       ELSE Out(i.mgr, kr, fs, FALSE,
                BackendGet(i.mgr.activeBackend, i.mgr.fileStoragePath,
                           account, kr, fs))

\* SecretsManager.setSecret
setSecret(mgr, account, value, kr, fs) ==
    LET i == initialize(mgr)
    IN IF i.threw THEN Out(i.mgr, kr, fs, TRUE, Null)
       ELSE LET r == BackendSet(i.mgr.activeBackend, i.mgr.fileStoragePath,
                                account, value, kr, fs)
            IN Out(i.mgr, r.keyring, r.files, r.threw, Null)

\* SecretsManager.deleteSecret
deleteSecret(mgr, account, kr, fs) ==
    LET i == initialize(mgr)
    IN IF i.threw THEN Out(i.mgr, kr, fs, TRUE, FALSE)
       ELSE LET r == BackendDelete(i.mgr.activeBackend,
                                   i.mgr.fileStoragePath, account, kr, fs)
            IN Out(i.mgr, r.keyring, r.files, r.threw, r.value)

\* migrate.ts 33-46: one turn of the loop over apiKeys
MigrateKey(st, keyName, dryRun) ==
    IF ~Truthy(st.oldConfig[keyName]) THEN st
    ELSE IF dryRun THEN [st EXCEPT !.migrated = Append(@, keyName)]
    ELSE LET r == setSecret(st.mgr, keyName, st.oldConfig[keyName],
                            st.keyring, st.files)
         IN IF r.threw
            THEN [st EXCEPT !.mgr = r.mgr, !.errors = Append(@, keyName)]
            ELSE [st EXCEPT !.mgr = r.mgr, !.keyring = r.keyring,
                            !.files = r.files,
                            !.oldConfig = [@ EXCEPT ![keyName] = Null],
                            !.configModified = TRUE,
                            !.migrated = Append(@, keyName)]

RECURSIVE MigrateLoop(_, _, _)
MigrateLoop(st, keyNames, dryRun) ==
    IF keyNames = <<>> THEN st
    ELSE MigrateLoop(MigrateKey(st, Head(keyNames), dryRun),
                     Tail(keyNames), dryRun)

\* migrate.ts 48-51: the config file is written back without the keys
MigrateEnd(st, dryRun) ==
    IF st.configModified /\ ~dryRun
    THEN [st EXCEPT !.files = WriteConfig(st.files, ConfigPath, st.oldConfig)]
    ELSE st

\* migrateSecretsToSecureStorage
migrateSecretsToSecureStorage(mgr, dryRun, kr, fs) ==
    LET st0 == [mgr |-> mgr, keyring |-> kr, files |-> fs,
                oldConfig |-> ReadConfig(fs, ConfigPath),
                configModified |-> FALSE, migrated |-> <<>>, errors |-> <<>>]
    IN IF ~fs[ConfigPath].exists THEN st0
       ELSE MigrateEnd(MigrateLoop(st0, ApiKeys, dryRun), dryRun)

-----------------------------------------------------------------------------
(* The secrets manager driven through its operations *)

\* the accounts and passwords the operations are called with
Accounts == {"GROQ_API_KEY", "OPENAI_API_KEY"}

Passwords == {"", "gsk_a", "gsk_b"}

\* the managers constructed: by config.ts 161-166 and secrets.ts 14-19, by
\* the tests (part_000 12-16, 43-47), and with other orders, without the
\* fallback and with the file backend's default path
Managers ==
    {NewManager(DefaultPreferredBackends, TRUE, ConfigPath),
     NewManager(<<"env", "file">>, TRUE, ConfigPath),
     NewManager(<<"file">>, TRUE, "/tmp/.lazycommit-test"),
     NewManager(<<"file", "keychain">>, FALSE, ConfigPath),
     NewManager(<<"windows", "keychain">>, TRUE, "/tmp/.lazycommit-test"),
     NewManager(<<"keychain", "libsecret">>, FALSE, ConfigPath)}

\* the platform credential store and the environment hold no key yet
NoEntries == [k \in Keys |-> Null]

\* ~/.lazycommit before the first operation
ConfigFiles ==
    {NoFile,
     [exists |-> TRUE,
      lines |-> {<<"GROQ_API_KEY", "gsk_old">>, <<"OPENAI_API_KEY", "sk-old">>,
                 <<"provider", "groq">>}]}

SecretArgs(op, account, value, dryRun) ==
    [op |-> op, account |-> account, value |-> value, dryRun |-> dryRun]

SecretResult(value, deleted, migrated, errors) ==
    [value |-> value, deleted |-> deleted, migrated |-> migrated,
     errors |-> errors]

\* no staged diff is read and no message is generated
NoGeneration ==
    /\ diff = <<>> /\ chunkSize = 1 /\ chunks = <<>>
    /\ compact = "unknown" /\ idx = 0 /\ chunkMessages = <<>>
    /\ generate = 1 /\ calls = <<>> /\ messages = <<>>
    /\ outcome = "running" /\ commits = <<>>
    /\ baseMessage = <<>> /\ hookFile = <<>> /\ inflight = <<>>
    /\ commitSource = NoCommitSource

\* the generation pipeline's variables
generationVars ==
    <<diff, chunkSize, chunks, compact, idx, chunkMessages, generate, calls,
      messages, outcome, commits, baseMessage, hookFile, inflight,
      commitSource>>

SecretsInit ==
    /\ mode = "secrets" /\ pc = "new" /\ error = "none"
    /\ args = SecretArgs("new", Null, Null, FALSE)
    /\ result = SecretResult(Null, FALSE, <<>>, <<>>)
    /\ secretsManager \in Managers
    /\ platform \in {"darwin", "linux", "win32"}
    /\ keyringUp \in BOOLEAN
    /\ keyring = NoEntries
    /\ environ = [NoEntries EXCEPT !["GROQ_API_KEY"] = "gsk_env"]
    /\ \E home \in ConfigFiles :
          files = [p \in Paths |-> IF p = ConfigPath THEN home ELSE NoFile]
    /\ NoGeneration /\ hookEntry = <<>>

\* the operation returned or threw: its name, arguments, outcome and state
Settle(a, out, res) ==
    /\ pc' = a.op /\ args' = a
    /\ secretsManager' = out.mgr
    /\ keyring' = out.keyring /\ files' = out.files
    /\ error' = IF out.threw THEN "Error" ELSE "none"
    /\ result' = res
    /\ UNCHANGED <<mode, platform, keyringUp, environ, generationVars,
                   hookEntry>>

Initialize ==
    /\ mode = "secrets"
    /\ LET i == initialize(secretsManager)
       IN Settle(SecretArgs("initialize", Null, Null, FALSE),
                 Out(i.mgr, keyring, files, i.threw, Null),
                 SecretResult(Null, FALSE, <<>>, <<>>))

GetSecret ==
    /\ mode = "secrets"
    /\ \E account \in Accounts :
          LET out == getSecret(secretsManager, account, keyring, files)
          IN Settle(SecretArgs("getSecret", account, Null, FALSE), out,
                    SecretResult(out.value, FALSE, <<>>, <<>>))

SetSecret ==
    /\ mode = "secrets"
    /\ \E account \in Accounts, value \in Passwords :
          LET out == setSecret(secretsManager, account, value, keyring, files)
          IN Settle(SecretArgs("setSecret", account, value, FALSE), out,
                    SecretResult(Null, FALSE, <<>>, <<>>))

DeleteSecret ==
    /\ mode = "secrets"
    /\ \E account \in Accounts :
          LET out == deleteSecret(secretsManager, account, keyring, files)
          IN Settle(SecretArgs("deleteSecret", account, Null, FALSE), out,
                    SecretResult(Null, out.value, <<>>, <<>>))

Migrate ==
    /\ mode = "secrets"
    /\ \E dryRun \in BOOLEAN :
          LET st == migrateSecretsToSecureStorage(secretsManager, dryRun,
                                                  keyring, files)
          IN Settle(SecretArgs("migrate", Null, Null, dryRun),
                    Out(st.mgr, st.keyring, st.files, FALSE, Null),
                    SecretResult(Null, FALSE, st.migrated, st.errors))

\* the platform's credential store is locked or unlocked, stopped or started
KeyringChanges ==
    /\ mode = "secrets"
    /\ keyringUp' = ~keyringUp
    /\ UNCHANGED <<mode, pc, args, result, error, secretsManager, platform,
                   keyring, environ, files, generationVars,
                   hookEntry>>

SecretsNext ==
    \/ Initialize \/ GetSecret \/ SetSecret \/ DeleteSecret \/ Migrate
    \/ KeyringChanges

SecretsSpec == SecretsInit /\ [][SecretsNext]_vars

-----------------------------------------------------------------------------
(* Claims about the secrets manager (checked under SecretsSpec) *)

\* a step of one of the manager's operations: the platform's credential
\* store stays as it is
ManagerStep == keyringUp' = keyringUp

\* C22: initialize makes the first backend of the preferred order that
\* reports itself available the active one; when none does, the file
\* backend if the fallback is enabled, and otherwise it fails; once the
\* manager is initialized no step changes the active backend.
C22_FirstAvailableBackend ==
    [][/\ secretsManager.initialized =>
             /\ secretsManager'.initialized
             /\ secretsManager'.activeBackend = secretsManager.activeBackend
       /\ (pc' = "initialize" /\ ManagerStep /\ ~secretsManager.initialized) =>
             LET order == secretsManager.preferredBackends
                 first == {i \in 1..Len(order) :
                              /\ IsAvailable(order[i])
                              /\ \A j \in 1..(i - 1) : ~IsAvailable(order[j])}
             IN IF first # {}
                THEN /\ secretsManager'.initialized /\ error' = "none"
                     /\ \E i \in first :
                           secretsManager'.activeBackend = order[i]
                ELSE IF secretsManager.fallbackToFile
                THEN /\ secretsManager'.initialized /\ error' = "none"
                     /\ secretsManager'.activeBackend = "file"
                ELSE /\ ~secretsManager'.initialized /\ error' = "Error"]_vars

C22_Witness ==
    /\ pc = "initialize" /\ secretsManager.initialized
    /\ secretsManager.preferredBackends = DefaultPreferredBackends
    /\ secretsManager.activeBackend = "env" /\ platform = "darwin"
    /\ keyringUp

\* what getSecret returns for an account in the current state
Stored(account) == getSecret(secretsManager, account, keyring, files).value

\* and in the state a step leads to
StoredAfter(account) ==
    getSecret(secretsManager', account, keyring', files').value

\* C23: with the file backend active the manager is a map: getSecret(k)
\* returns what the last setSecret(k, v) stored, and null after a
\* deleteSecret(k); deleteSecret(k) returns true exactly when k was stored;
\* an operation on k leaves what is stored under the other accounts.
C23_FileBackendIsMap ==
    [][(/\ ManagerStep /\ error' = "none"
        /\ secretsManager'.initialized
        /\ secretsManager'.activeBackend = "file") =>
          /\ pc' = "setSecret" =>
                /\ StoredAfter(args'.account) = args'.value
                /\ \A k \in Accounts \ {args'.account} : StoredAfter(k) = Stored(k)
          /\ pc' = "deleteSecret" =>
                /\ StoredAfter(args'.account) = Null
                /\ result'.deleted = (Stored(args'.account) # Null)
                /\ \A k \in Accounts \ {args'.account} : StoredAfter(k) = Stored(k)
          /\ pc' = "getSecret" =>
                /\ result'.value = Stored(args'.account)
                /\ \A k \in Accounts : StoredAfter(k) = Stored(k)]_vars

\* C27: after a migration that is no dry run, every key reported as
\* migrated is returned by getSecret of the same manager with the value the
\* config file had, whatever the active backend; a key reported as failed
\* is still in the config file.
C27_MigrationKeepsCredentials ==
    [][(pc' = "migrate" /\ ManagerStep /\ ~args'.dryRun) =>
          LET oldConfig == ReadConfig(files, ConfigPath)
              newConfig == ReadConfig(files', ConfigPath)
          IN /\ \A i \in 1..Len(result'.migrated) :
                   StoredAfter(result'.migrated[i]) = oldConfig[result'.migrated[i]]
             /\ \A i \in 1..Len(result'.errors) :
                   newConfig[result'.errors[i]] = oldConfig[result'.errors[i]]]_vars

-----------------------------------------------------------------------------
(* The configuration: getConfig and setConfigs over the config file and the
   secrets manager of config.ts *)

\* Object.keys(configParsers), config.ts 23-143, for the properties of Keys.
\* The parsers of locale, type, proxy, model, timeout and max-length return
\* their default for a property that is given nowhere.
ParserOrder ==
    <<"provider", "GROQ_API_KEY", "OPENAI_API_KEY", "ANTHROPIC_API_KEY",
      "generate">>

\* String.prototype.startsWith over the key values used here
StartsWith(value, prefix) ==
    CASE prefix = "gsk_" -> value \in {"gsk_a", "gsk_old", "gsk_env", "gsk_k"}
      [] prefix = "sk-" -> value \in {"sk-a", "sk-old", "sk-ant-a", "sk-or-a"}
      [] prefix = "sk_" -> FALSE
      [] prefix = "sk-ant-" -> value \in {"sk-ant-a"}
      [] OTHER -> FALSE

\* /^\d+$/.test(count) and Number(count) over one-digit counts
IsInteger(count) == \E n \in 0..9 : ToString(n) = count

Number(count) == CHOOSE n \in 0..9 : ToString(n) = count

Parsed(value) == [threw |-> FALSE, value |-> value]

\* parseAssert threw a KnownError
Rejected == [threw |-> TRUE, value |-> Null]

\* configParsers[key](value), config.ts 23-143
configParsers(key, value) ==
    CASE key = "provider" ->
            IF ~Truthy(value) THEN Parsed("groq")
            ELSE IF value \in {"groq", "openai", "anthropic"}
            THEN Parsed(value) ELSE Rejected
      [] key = "GROQ_API_KEY" ->
            IF ~Truthy(value) THEN Parsed(Null)
            ELSE IF StartsWith(value, "gsk_") THEN Parsed(value) ELSE Rejected
      [] key = "OPENAI_API_KEY" ->
            IF ~Truthy(value) THEN Parsed(Null)
            ELSE IF StartsWith(value, "sk-") \/ StartsWith(value, "sk_")
            THEN Parsed(value) ELSE Rejected
      [] key = "ANTHROPIC_API_KEY" ->
            IF ~Truthy(value) THEN Parsed(Null)
            ELSE IF StartsWith(value, "sk-ant-") THEN Parsed(value)
            ELSE Rejected
      [] key = "generate" ->
            IF ~Truthy(value) THEN Parsed("1")
            ELSE IF IsInteger(value) /\ Number(value) > 0 /\ Number(value) <= 5
            THEN Parsed(value) ELSE Rejected

\* config.ts 193-213: a key the caller did not pass is taken from the
\* secure store when the store has it
Overlay(value, cliValue, secure) ==
    IF ~Truthy(cliValue) /\ Truthy(secure) THEN secure ELSE value

SecureOverlay(config, cliConfig, keyNames, mgr, kr, fs) ==
    [k \in Keys |->
        IF k \in keyNames
        THEN Overlay(config[k], cliConfig[k], getSecret(mgr, k, kr, fs).value)
        ELSE config[k]]

\* config.ts 225-231: parser(value), with or without the try
ParseStep(st, key, p, suppressErrors) ==
    IF p.threw
    THEN IF suppressErrors THEN st
         ELSE [st EXCEPT !.threw = TRUE, !.error = "Invalid config property",
                         !.property = key]
    ELSE [st EXCEPT !.parsedConfig[key] = p.value]

\* cliConfig?.[key] ?? config[key]
Coalesce(cliValue, value) == IF cliValue # Null THEN cliValue ELSE value

\* config.ts 221-232: the loop over the parsers
RECURSIVE ParseLoop(_, _, _, _, _)
ParseLoop(st, keyNames, cliConfig, config, suppressErrors) ==
    IF keyNames = <<>> \/ st.threw THEN st
    ELSE ParseLoop(
            ParseStep(st, Head(keyNames),
                      configParsers(Head(keyNames),
                                    Coalesce(cliConfig[Head(keyNames)],
                                             config[Head(keyNames)])),
                      suppressErrors),
            Tail(keyNames), cliConfig, config, suppressErrors)

\* config.ts 250-264
PleaseSet(provider) ==
    CASE provider = "groq" -> "Please set your Groq API key"
      [] provider = "openai" -> "Please set your OpenAI API key"
      [] provider = "anthropic" -> "Please set your Anthropic API key"

ProviderKey(provider) ==
    CASE provider = "groq" -> "GROQ_API_KEY"
      [] provider = "openai" -> "OPENAI_API_KEY"
      [] provider = "anthropic" -> "ANTHROPIC_API_KEY"

\* what getConfig returns or throws, and the manager it leaves
ConfigOutcome(mgr, err, property, config, provider) ==
    [mgr |-> mgr, threw |-> err # "none", error |-> err,
     property |-> property, config |-> config, provider |-> provider]

\* config.ts 234-267: the provider's key must be there
RequireKey(st, provider, suppressErrors, mgr) ==
    IF st.threw
    THEN ConfigOutcome(mgr, st.error, st.property, EmptyObject, provider)
    ELSE IF ~suppressErrors /\ ~Truthy(st.parsedConfig[ProviderKey(provider)])
    THEN ConfigOutcome(mgr, PleaseSet(provider), Null, EmptyObject, provider)
    ELSE ConfigOutcome(mgr, "none", Null, st.parsedConfig, provider)

\* finalConfig.provider || 'groq'
ProviderOf(parsedConfig) ==
    IF Truthy(parsedConfig["provider"]) THEN parsedConfig["provider"]
    ELSE "groq"

\* config.ts 186-219: the config file, overlaid with the secure store
\* unless the manager cannot be had
ResolveConfig(i, cliConfig, kr, fs) ==
    IF i.threw THEN ReadConfig(fs, ConfigPath)
    ELSE SecureOverlay(ReadConfig(fs, ConfigPath), cliConfig,
                       {ApiKeys[n] : n \in 1..Len(ApiKeys)}, i.mgr, kr, fs)

ParsedState == [parsedConfig |-> EmptyObject, threw |-> FALSE,
                error |-> "none", property |-> Null]

GetConfigEnd(st, suppressErrors, mgr) ==
    RequireKey(st, ProviderOf(st.parsedConfig), suppressErrors, mgr)

GetConfigWith(i, cliConfig, suppressErrors, kr, fs) ==
    GetConfigEnd(ParseLoop(ParsedState, ParserOrder, cliConfig,
                           ResolveConfig(i, cliConfig, kr, fs),
                           suppressErrors),
                 suppressErrors, i.mgr)

\* getConfig, config.ts 182-268
getConfig(cliConfig, suppressErrors, mgr, kr, fs) ==
    GetConfigWith(initialize(mgr), cliConfig, suppressErrors, kr, fs)

\* parsed?.toString(): a property set to undefined is written by
\* ini.stringify as the text 'undefined'
ToStringOrUndefined(parsed) == IF parsed = Null THEN "undefined" ELSE parsed

\* config.ts 284-298: after manager.setSecret returned or threw
AfterSetSecret(st, key, parsed, r) ==
    IF r.threw
    THEN [st EXCEPT !.mgr = r.mgr, !.config[key] = parsed]
    ELSE IF r.mgr.activeBackend # "file"
    THEN [st EXCEPT !.mgr = r.mgr, !.keyring = r.keyring, !.files = r.files]
    ELSE [st EXCEPT !.mgr = r.mgr, !.keyring = r.keyring, !.files = r.files,
                    !.config[key] = parsed]

\* config.ts 280-298: the parsed value goes to the secure store or to the
\* config object
SetParsed(st, key, p) ==
    IF p.threw
    THEN [st EXCEPT !.threw = TRUE, !.error = "Invalid config property"]
    ELSE IF key \in {ApiKeys[n] : n \in 1..Len(ApiKeys)} /\ Truthy(p.value)
    THEN AfterSetSecret(st, key, p.value,
                        setSecret(st.mgr, key, p.value, st.keyring, st.files))
    ELSE [st EXCEPT !.config[key] = ToStringOrUndefined(p.value)]

\* config.ts 275-299: one turn of the loop over keyValues
SetConfig(st, key, value) ==
    IF key \notin Keys
    THEN [st EXCEPT !.threw = TRUE, !.error = "Invalid config property"]
    ELSE SetParsed(st, key, configParsers(key, value))

RECURSIVE SetLoop(_, _)
SetLoop(st, keyValues) ==
    IF keyValues = <<>> \/ st.threw THEN st
    ELSE SetLoop(SetConfig(st, Head(keyValues)[1], Head(keyValues)[2]),
                 Tail(keyValues))

\* config.ts 271-273: the config file is read and the manager is had
SetConfigsStart(i, kr, fs) ==
    [mgr |-> i.mgr, keyring |-> kr, files |-> fs,
     config |-> ReadConfig(fs, ConfigPath), threw |-> i.threw,
     error |-> IF i.threw THEN "Error" ELSE "none"]

\* config.ts 301: the config file is written once the loop is through
SetConfigsEnd(st) ==
    IF st.threw THEN st
    ELSE [st EXCEPT !.files = WriteConfig(st.files, ConfigPath, st.config)]

\* setConfigs, config.ts 270-302
setConfigs(keyValues, mgr, kr, fs) ==
    SetConfigsEnd(SetLoop(SetConfigsStart(initialize(mgr), kr, fs), keyValues))

-----------------------------------------------------------------------------
(* getConfig and setConfigs applied to bounded inputs *)

MaxPairs == 2

\* what a caller passes as cliConfig: nothing, a value, or the empty value
\* of an environment variable that is set to nothing
CliConfigs ==
    {[EmptyObject EXCEPT !["provider"] = p, !["GROQ_API_KEY"] = g,
                         !["OPENAI_API_KEY"] = o] :
        p \in {Null, "openai"}, g \in {Null, "", "gsk_a"},
        o \in {Null, "sk-a"}}

\* the pairs of `lazycommit config set`
Pairs ==
    {<<"GROQ_API_KEY", "gsk_a">>, <<"provider", "openai">>,
     <<"generate", "9">>, <<"OPENROUTER_API_KEY", "sk-or-a">>}

ConfigArgs(op, cliConfig, suppressErrors, keyValues) ==
    [op |-> op, cliConfig |-> cliConfig, suppressErrors |-> suppressErrors,
     keyValues |-> keyValues]

ConfigResult(config, provider, property) ==
    [config |-> config, provider |-> provider, property |-> property]

\* ~/.lazycommit before the first call
StoredConfigs ==
    {NoFile,
     [exists |-> TRUE,
      lines |-> {<<"GROQ_API_KEY", "gsk_old">>, <<"provider", "groq">>}],
     [exists |-> TRUE,
      lines |-> {<<"OPENAI_API_KEY", "sk-old">>, <<"provider", "openai">>}]}

\* config.ts 157-170: the one manager, built on first use
ConfigInit ==
    /\ mode = "config" /\ pc = "new" /\ error = "none"
    /\ args = ConfigArgs("new", EmptyObject, FALSE, <<>>)
    /\ result = ConfigResult(EmptyObject, Null, Null)
    /\ secretsManager = NewManager(DefaultPreferredBackends, TRUE, ConfigPath)
    /\ platform \in {"darwin", "linux"}
    /\ keyringUp \in BOOLEAN
    /\ keyring \in {NoEntries, [NoEntries EXCEPT !["GROQ_API_KEY"] = "gsk_k"]}
    /\ environ \in {NoEntries, [NoEntries EXCEPT !["GROQ_API_KEY"] = "gsk_env"]}
    /\ \E home \in StoredConfigs :
          files = [p \in Paths |-> IF p = ConfigPath THEN home ELSE NoFile]
    /\ NoGeneration /\ hookEntry = <<>>

\* getConfig returned or threw
GetConfigSettle(cliConfig, suppressErrors, r) ==
    /\ pc' = "getConfig"
    /\ args' = ConfigArgs("getConfig", cliConfig, suppressErrors, <<>>)
    /\ secretsManager' = r.mgr
    /\ error' = r.error
    /\ result' = ConfigResult(r.config, r.provider, r.property)
    /\ UNCHANGED <<mode, platform, keyringUp, keyring, environ, files,
                   generationVars, hookEntry>>

\* a run of the CLI or of the hook reads the configuration
GetConfig ==
    /\ mode = "config" /\ pc \in {"new", "setConfigs"}
    /\ \E cliConfig \in CliConfigs, suppressErrors \in BOOLEAN :
          GetConfigSettle(cliConfig, suppressErrors,
                          getConfig(cliConfig, suppressErrors, secretsManager,
                                    keyring, files))

\* setConfigs returned or threw
SetConfigsSettle(keyValues, st) ==
    /\ pc' = "setConfigs"
    /\ args' = ConfigArgs("setConfigs", EmptyObject, FALSE, keyValues)
    /\ secretsManager' = st.mgr
    /\ keyring' = st.keyring /\ files' = st.files
    /\ error' = st.error
    /\ result' = ConfigResult(EmptyObject, Null, Null)
    /\ UNCHANGED <<mode, platform, keyringUp, environ, generationVars,
                   hookEntry>>

\* `lazycommit config set`, run once
SetConfigs ==
    /\ mode = "config" /\ pc = "new"
    /\ \E keyValues \in SeqsUpTo(Pairs, MaxPairs) :
          SetConfigsSettle(keyValues,
                           setConfigs(keyValues, secretsManager, keyring,
                                      files))

ConfigNext == GetConfig \/ SetConfigs

ConfigSpec == ConfigInit /\ [][ConfigNext]_vars

-----------------------------------------------------------------------------
(* Claims about the configuration (checked under ConfigSpec) *)

\* the key is given nowhere: not by the caller, not in the secure store,
\* not in the config file
Absent(key, cliConfig) ==
    /\ ~Truthy(cliConfig[key])
    /\ ~Truthy(Stored(key))
    /\ ~Truthy(ReadConfig(files, ConfigPath)[key])

\* C24: when no value is rejected by its parser, getConfig without error
\* suppression throws the 'Please set your ... API key' error of the
\* selected provider exactly when that provider's key is given nowhere,
\* whatever other provider's key is given; with error suppression it never
\* throws.
C24_MissingKeyError ==
    [][pc' = "getConfig" =>
          /\ args'.suppressErrors => error' = "none"
          /\ (~args'.suppressErrors /\ error' # "Invalid config property") =>
                /\ error' \in {"none", PleaseSet(result'.provider)}
                /\ (error' = PleaseSet(result'.provider)) <=>
                      Absent(ProviderKey(result'.provider), args'.cliConfig)]_vars

\* C29: a setConfigs call that throws for one of its pairs leaves the config
\* file and the secure store as they were.
C29_SetConfigsAllOrNothing ==
    [][(pc' = "setConfigs" /\ error' # "none") =>
          /\ files' = files
          /\ keyring' = keyring]_vars

-----------------------------------------------------------------------------
(* The chunked path makes no second attempt (checked under Spec) *)

\* the kinds of completion call the chunked path makes
ChunkedKinds == {"chunk", "synthesis", "fallback"}

\* C25: the chunked path performs no automatic retry: for a diff partitioned
\* into k > 1 chunks at most k + 1 completion calls are made in one request,
\* each chunk is called exactly once (the i-th chunk call carries the i-th
\* chunk, and once the loop is left there are k of them), and the synthesis
\* call and the file-name fallback call are never both issued.
C25_NoRetryInChunkedPath ==
    Chunked =>
        /\ Len(calls) <= Len(chunks) + 1
        /\ \A j \in 1..Len(calls) : calls[j].kind \in ChunkedKinds
        /\ Len(CallsOf("chunk")) <= Len(chunks)
        /\ \A i \in 1..Len(CallsOf("chunk")) :
              CallsOf("chunk")[i].payload = chunks[i]
        /\ pc # "perChunk" => Len(CallsOf("chunk")) = Len(chunks)
        /\ Len(CallsOf("synthesis")) + Len(CallsOf("fallback")) <= 1

C25_Witness ==
    /\ Chunked /\ Len(chunks) = 3 /\ pc = "exit1"
    /\ Len(calls) = Len(chunks) + 1
    /\ calls[1].why = "timeout" /\ ~calls[2].ok /\ ~calls[3].ok
    /\ calls[4].kind = "fallback" /\ ~calls[4].ok

-----------------------------------------------------------------------------
(* The partitioner and the files of a diff (checked under PartSpec) *)

\* a text character by character: 'diff --git ' is 'diff --git' and a blank
RECURSIVE Characters(_)
Characters(s) ==
    IF s = <<>> THEN <<>>
    ELSE (IF Head(s) = "D" THEN <<"d", " ">> ELSE <<Head(s)>>)
         \o Characters(Tail(s))

\* text a occurs in text b
OccursIn(a, b) ==
    \E k \in 0..(Len(b) - Len(a)) : SubSeq(b, k + 1, k + Len(a)) = a

\* chunk i is text of the file segment f[i], the chunks follow the order of
\* the segments, and a segment within the budget is one chunk, itself
ChunksByFile(f, segments) ==
    /\ \A i, j \in 1..Len(chunks) : i <= j => f[i] <= f[j]
    /\ \A i \in 1..Len(chunks) :
          /\ chunks[i] # <<>>
          /\ OccursIn(Characters(chunks[i]), Characters(segments[f[i]]))
    /\ \A k \in 1..Len(segments) :
          estimateTokenCount(segments[k]) <= chunkSize =>
              /\ Cardinality({i \in 1..Len(chunks) : f[i] = k}) = 1
              /\ \A i \in 1..Len(chunks) : f[i] = k => chunks[i] = segments[k]

\* C26: the partitioner never splits a file's diff unnecessarily and never
\* mixes files: a file segment whose estimated cost is within the budget
\* becomes exactly one chunk, every chunk contains text of exactly one file
\* segment, and the chunks appear in the order of the files in the diff.
C26_ChunksFollowFiles ==
    pc = "buildChunks" =>
        \E f \in [1..Len(chunks) -> 1..Len(splitDiffByFile(diff))] :
            ChunksByFile(f, splitDiffByFile(diff))

-----------------------------------------------------------------------------
(* `lazycommit hook install|uninstall`: src/commands/hook.ts *)

hookName == "prepare-commit-msg"

\* fileURLToPath(new URL('cli.mjs', import.meta.url))
hookPath == "dist/cli.mjs"

\* the script written on Windows, which imports hookPath
windowsHook == "#!/usr/bin/env node import(dist/cli.mjs)"

isWindows(os) == os = "win32"

\* what the hooks directory holds under hookName
NoHook == [type |-> "none", content |-> Null, target |-> Null]

File(content) == [type |-> "file", content |-> content, target |-> Null]

Symlink(target) == [type |-> "symlink", content |-> Null, target |-> target]

\* a hook script of another tool, the path of such a script, a path where
\* there is no file, and the text of cli.mjs
OtherHook == "#!/bin/sh other"

OtherPath == "other/hook.sh"

MissingPath == "gone/hook.sh"

CliSource == "cli.mjs source"

HookEntries ==
    {NoHook, File(windowsHook), File(OtherHook),
     Symlink(hookPath), Symlink(OtherPath), Symlink(MissingPath)}

\* a file system call rejected
Rejects == "(rejects)"

\* fileExists of utils/fs.js, as hook.ts 45-52 relies on it: a symbolic link
\* that leads nowhere exists, and realpath throws for it
fileExists(entry) == entry.type # "none"

\* fs.realpath(absoltueSymlinkPath)
realpath(entry) ==
    IF entry.type = "file" THEN hookName
    ELSE IF entry.type = "symlink" /\ entry.target # MissingPath
    THEN entry.target
    ELSE Rejects

\* fs.readFile(absoltueSymlinkPath, 'utf8')
readFile(entry) ==
    IF entry.type = "file" THEN entry.content
    ELSE IF entry.type = "symlink" /\ entry.target = hookPath THEN CliSource
    ELSE IF entry.type = "symlink" /\ entry.target = OtherPath THEN OtherHook
    ELSE Rejects

DifferentHook == "A different prepare-commit-msg hook seems to be installed"

InvalidMode == "Invalid mode"

\* how the command ended: the hook entry, what it printed, what it threw
Ended(entry, logs, err) == [entry |-> entry, logs |-> logs, error |-> err]

\* hook.ts 46-77
install(entry, windows) ==
    IF fileExists(entry)
    THEN IF realpath(entry) = hookPath
         THEN Ended(entry, <<"The hook is already installed">>, "none")
         ELSE Ended(entry, <<>>, DifferentHook)
    ELSE Ended(IF windows THEN File(windowsHook) ELSE Symlink(hookPath),
               <<"Hook installed">>, "none")

\* uninstall without the tests of hook.ts 85-97: whatever exists is removed
uninstallWhatever(entry, windows) ==
    IF ~fileExists(entry)
    THEN Ended(entry, <<"Hook is not installed">>, "none")
    ELSE Ended(NoHook, <<"Hook uninstalled">>, "none")

\* hook.ts 79-102
uninstall(entry, windows) ==
    IF ~fileExists(entry)
    THEN Ended(entry, <<"Hook is not installed">>, "none")
    ELSE IF (IF windows THEN readFile(entry) ELSE realpath(entry)) = Rejects
    THEN Ended(entry, <<>>, "ENOENT")
    ELSE IF (IF windows THEN readFile(entry) # windowsHook
                        ELSE realpath(entry) # hookPath)
    THEN Ended(entry, <<"Hook is not installed">>, "none")
    ELSE Ended(NoHook, <<"Hook uninstalled">>, "none")

\* hook.ts 39-42 and 73-75: what is printed for a Husky hooks directory
Husky(hooksDir) == hooksDir = ".husky"

WithHuskyNotes(hooksDir, installing, out) ==
    Ended(out.entry,
          (IF Husky(hooksDir) THEN <<"Detected Husky hooks directory",
                                     "Installing alongside Husky hooks">>
           ELSE <<>>)
          \o out.logs
          \o (IF Husky(hooksDir) /\ installing
                 /\ out.logs = <<"Hook installed">>
              THEN <<"This hook will run alongside your Husky hooks">>
              ELSE <<>>),
          out.error)

\* hook.ts 30-104: the command
hookCommand(installUninstall, entry, hooksDir, windows) ==
    IF installUninstall = "install"
    THEN WithHuskyNotes(hooksDir, TRUE, install(entry, windows))
    ELSE IF installUninstall = "uninstall"
    THEN WithHuskyNotes(hooksDir, FALSE, uninstall(entry, windows))
    ELSE WithHuskyNotes(hooksDir, FALSE, Ended(entry, <<>>, InvalidMode))

\* the <install/uninstall> parameter
HookModes == {"install", "uninstall", "status"}

HooksDirs == {".git/hooks", ".husky"}

HookArgs(installUninstall, hooksDir) ==
    [installUninstall |-> installUninstall, hooksDir |-> hooksDir]

HookCommandInit ==
    /\ mode = "hookCommand" /\ pc = "start" /\ error = "none"
    /\ \E hooksDir \in HooksDirs : args = HookArgs(Null, hooksDir)
    /\ result = <<>>
    /\ platform \in {"linux", "win32"}
    /\ hookEntry \in HookEntries
    /\ secretsManager = <<>> /\ keyringUp = <<>> /\ keyring = <<>>
    /\ environ = <<>> /\ files = <<>>
    /\ NoGeneration

\* the command ran to its end, or to the catch that prints and exits
HookCommandEnds(installUninstall, out) ==
    /\ pc' = installUninstall
    /\ args' = HookArgs(installUninstall, args.hooksDir)
    /\ hookEntry' = out.entry
    /\ result' = out.logs
    /\ error' = out.error
    /\ UNCHANGED <<mode, platform, secretsManager, keyringUp, keyring,
                   environ, files, generationVars>>

HookCommand ==
    /\ mode = "hookCommand"
    /\ \E installUninstall \in HookModes :
          HookCommandEnds(installUninstall,
                          hookCommand(installUninstall, hookEntry,
                                      args.hooksDir, isWindows(platform)))

\* between two commands the user, or another tool, puts a hook there or
\* takes it away
HooksDirChanges ==
    /\ mode = "hookCommand"
    /\ hookEntry' \in HookEntries \ {hookEntry}
    /\ pc' = "edited"
    /\ args' = HookArgs(Null, args.hooksDir)
    /\ result' = <<>> /\ error' = "none"
    /\ UNCHANGED <<mode, platform, secretsManager, keyringUp, keyring,
                   environ, files, generationVars>>

HookCommandNext == HookCommand \/ HooksDirChanges

HookCommandSpec == HookCommandInit /\ [][HookCommandNext]_vars

-----------------------------------------------------------------------------
(* Claims about the hook command (checked under HookCommandSpec) *)

\* a hook lazycommit writes, on one platform or the other
Lazycommits(entry) == entry \in {File(windowsHook), Symlink(hookPath)}

\* a hook that is there and is not lazycommit's
Foreign(entry) == entry # NoHook /\ ~Lazycommits(entry)

\* the step is a run of `hook install` / of `hook uninstall`
Installs == pc' = "install" /\ args'.installUninstall = "install"

Uninstalls == pc' = "uninstall" /\ args'.installUninstall = "uninstall"

\* C28: over any sequence of 'hook install' and 'hook uninstall' commands a
\* prepare-commit-msg hook that is not lazycommit's own is never overwritten
\* or removed: install on a foreign hook fails and leaves it unchanged,
\* install on lazycommit's hook changes nothing, uninstall removes the hook
\* only when it is lazycommit's, and an uninstall that follows an install
\* which installed the hook leaves no hook.
C28_ForeignHookIsKept ==
    [][/\ (Installs \/ Uninstalls) =>
             (Foreign(hookEntry) => hookEntry' = hookEntry)
       /\ Installs =>
             /\ Foreign(hookEntry) => error' = DifferentHook
             /\ Lazycommits(hookEntry) => hookEntry' = hookEntry
             /\ hookEntry = NoHook =>
                   Lazycommits(hookEntry') /\ error' = "none"
       /\ Uninstalls =>
             /\ hookEntry' \in {hookEntry, NoHook}
             /\ hookEntry' # hookEntry => Lazycommits(hookEntry)
             /\ (pc = "install" /\ error = "none"
                   /\ "Hook installed" \in SeqToSet(result)) =>
                   hookEntry' = NoHook /\ error' = "none"]_vars

C28_Witness ==
    /\ mode = "hookCommand" /\ pc = "install" /\ error = DifferentHook
    /\ hookEntry = Symlink(MissingPath) /\ platform = "linux"

-----------------------------------------------------------------------------
(* Concurrent completion calls of one request (checked under Spec) *)

\* call i of the request has failed
FailedCall(i) == inflight[i].done /\ ~inflight[i].ok

\* C30: when n > 1 concurrent completion calls are issued for one request
\* and at least one of them fails, the whole request fails and no result of
\* the calls that succeeded is returned; the request completes with messages
\* only when all n calls succeeded.
C30_OneFailureFailsAll ==
    (mode = "hook" /\ Len(inflight) > 1) =>
        /\ (\E i \in 1..Len(inflight) : FailedCall(i)) =>
              /\ outcome = "failed" /\ pc = "exit1"
              /\ messages = <<>>
              /\ hookFile = baseMessage
        /\ outcome = "completed" =>
              /\ \A i \in 1..Len(inflight) : inflight[i].done /\ inflight[i].ok
              /\ messages = CleanAllAi(ChoicesOf(inflight))

C30_Witness ==
    /\ mode = "hook" /\ Len(inflight) > 1 /\ outcome = "failed"
    /\ inflight[2].done /\ inflight[2].ok /\ inflight[2].text # <<>>
    /\ FailedCall(1)

====
